---- MODULE Spec2Model ----
(***************************************************************************)
(* A model of arc-orm's SQL construction layer: the expression tree and    *)
(* its ToSQL rendering (package field, package sql) and the four statement *)
(* builders (Select, InsertInto, Update, DeleteFrom).                      *)
(*                                                                         *)
(* Rendered SQL text is a sequence of tokens.  Every Go string literal     *)
(* that the code concatenates is one token, a quoted identifier is one     *)
(* token, and the placeholder "?" is always a token of its own, so the     *)
(* number of placeholders of a text is the number of its "?" tokens and    *)
(* the empty string is the empty sequence.  TLA+ strings cannot hold the   *)
(* backtick; the apostrophe stands for it.                                 *)
(*                                                                         *)
(* A render result is [sql, args, err]; err = <<>> is Go's nil error and   *)
(* a non-empty err is the chain of wrapped messages, outermost first.      *)
(***************************************************************************)
EXTENDS Naturals, Sequences, FiniteSets, TLC

VARIABLES
    mode,   \* which object this behaviour works on: "expr", a builder, "ctor" or "orm"
    ex,     \* expr mode: the expression tree under render
    sel,    \* the SelectBuilder
    ins,    \* the InsertIntoBuilder
    upd,    \* the UpdateBuilder
    del,    \* the DeleteBuilder
    log,    \* ghost: the Set calls made so far, in call order
    late,   \* ghost: a Select method was called after a method of a later clause
    out,    \* the result of the latest ToSQL()/SQL() call, NoOut once the object changed
    call,   \* the latest call of a condition constructor (In, Contains, ...)
    orm     \* the binding ORM[T, P]: its types, table, state and engine calls

vars == <<mode, ex, sel, ins, upd, del, log, late, out, call, orm>>

-----------------------------------------------------------------------------
(* Bounds *)

MaxCalls == 5      \* method calls on an Insert, Update or Delete builder
MaxSelCalls == 4   \* method calls on a Select builder
MaxDepth == 2      \* nesting depth of the expression trees rendered on their own
MaxOperands == 3   \* operands of an and()/or() rendered on its own

-----------------------------------------------------------------------------
(* Text and results *)

Ph == "?"

Q(name) == "'" \o name \o "'"

Ok(sql, args) == [sql |-> sql, args |-> args, err |-> <<>>]

Fail(err) == [sql |-> <<>>, args |-> <<>>, err |-> err]

\* A LET whose value is computed once, however often the body uses it.
With(v, Body(_)) == CHOOSE r \in { Body(x) : x \in {v} } : TRUE

NoOut == [sql |-> <<"<none>">>, args |-> <<>>, err |-> <<"<none>">>]

RECURSIVE Flat(_)
Flat(ss) == IF ss = <<>> THEN <<>> ELSE Head(ss) \o Flat(Tail(ss))

RECURSIVE Join(_, _)
Join(parts, sep) ==
    IF parts = <<>> THEN <<>>
    ELSE IF Len(parts) = 1 THEN parts[1]
    ELSE parts[1] \o <<sep>> \o Join(Tail(parts), sep)

RECURSIVE CountPh(_)
CountPh(sql) ==
    IF sql = <<>> THEN 0
    ELSE (IF Head(sql) = Ph THEN 1 ELSE 0) + CountPh(Tail(sql))

RECURSIVE SkipEmpty(_)
SkipEmpty(rs) ==
    IF rs = <<>> THEN <<>>
    ELSE (IF Head(rs).sql = <<>> THEN <<>> ELSE <<Head(rs)>>) \o SkipEmpty(Tail(rs))

HasErr(rs) == \E i \in 1..Len(rs) : rs[i].err # <<>>

FirstErr(rs) == CHOOSE i \in 1..Len(rs) :
    /\ rs[i].err # <<>>
    /\ \A j \in 1..(i - 1) : rs[j].err = <<>>

-----------------------------------------------------------------------------
(* Expression constructors *)

Field(ftype, table, name) == [t |-> "field", ftype |-> ftype, table |-> table, name |-> name]

Lit(v) == [t |-> "lit", v |-> v]

NoOp == [t |-> "noop"]

ErrExpr(msg) == [t |-> "err", msg |-> msg]

Cmp(f, op, v) == [t |-> "cmp", f |-> f, op |-> op, v |-> v]

Like(f, v) == [t |-> "like", f |-> f, v |-> v]

InCond(f, vs) == [t |-> "in", f |-> f, vs |-> vs]

Between(f, a, b) == [t |-> "between", f |-> f, a |-> a, b |-> b]

BetweenExpr(f, a, b) == [t |-> "betweenExpr", f |-> f, a |-> a, b |-> b]

FieldCmp(l, op, r) == [t |-> "fieldcmp", l |-> l, op |-> op, r |-> r]

Null(f, isNull) == [t |-> "null", f |-> f, isNull |-> isNull]

And(cs) == [t |-> "and", cs |-> cs]

Or(cs) == [t |-> "or", cs |-> cs]

Not(cs) == [t |-> "not", cs |-> cs]

Paren(e) == [t |-> "paren", e |-> e]

mathOpExprs(op, es) ==
    IF Len(es) = 0 THEN NoOp
    ELSE IF Len(es) = 1 THEN es[1]
    ELSE [t |-> "math", op |-> op, es |-> es]

Func(name, as) == [t |-> "func", name |-> name, as |-> as]

As(e, alias) == [t |-> "alias", e |-> e, alias |-> alias]

FieldOp(f, op, v) == [t |-> "fieldop", f |-> f, op |-> op, v |-> v]

Agg(name, f) == [t |-> "agg", name |-> name, f |-> f]

HavingCond(a, op, v) == [t |-> "having", a |-> a, op |-> op, v |-> v]

OrderField(e, desc) == [t |-> "order", e |-> e, desc |-> desc]

\* Optional that forgets to test its flag.
OptionalIgnoresFlag(v, conds) ==
    IF Len(conds) = 0 THEN NoOp
    ELSE IF Len(conds) = 1 THEN conds[1]
    ELSE And(conds)

Optional(v, conds) ==
    IF ~v THEN NoOp
    ELSE IF Len(conds) = 0 THEN NoOp
    ELSE IF Len(conds) = 1 THEN conds[1]
    ELSE And(conds)

-----------------------------------------------------------------------------
(* Rendering *)

\* Every field written with its table prefix, an empty one included.
FieldSQLQualified(f) == Ok(<<Q(f.table) \o "." \o Q(f.name)>>, <<>>)

\* StringField.ToSQL alone does not test for an empty table name.
FieldSQL(f) ==
    IF f.ftype # "string" /\ f.table = ""
    THEN Ok(<<Q(f.name)>>, <<>>)
    ELSE Ok(<<Q(f.table) \o "." \o Q(f.name)>>, <<>>)

\* joinCodnitions without the single-operand case: one operand is parenthesized too.
joinCodnitionsAlwaysParen(rs, op) ==
    IF Len(rs) = 0 THEN Ok(<<>>, <<>>)
    ELSE IF HasErr(rs) THEN Fail(rs[FirstErr(rs)].err)
    ELSE LET kept == SkipEmpty(rs)
         IN  IF Len(kept) = 0 THEN Ok(<<>>, <<>>)
             ELSE Ok(<<"(">> \o Join([i \in 1..Len(kept) |-> kept[i].sql], " " \o op \o " ")
                     \o <<")">>,
                     Flat([i \in 1..Len(kept) |-> kept[i].args]))

joinCodnitions(rs, op) ==
    IF Len(rs) = 0 THEN Ok(<<>>, <<>>)
    ELSE IF HasErr(rs) THEN Fail(rs[FirstErr(rs)].err)
    ELSE LET kept == SkipEmpty(rs)
             sqlParts == [i \in 1..Len(kept) |-> kept[i].sql]
             params == Flat([i \in 1..Len(kept) |-> kept[i].args])
         IN  IF Len(sqlParts) = 0 THEN Ok(<<>>, <<>>)
             ELSE IF Len(sqlParts) = 1 THEN Ok(sqlParts[1], params)
             ELSE Ok(<<"(">> \o Join(sqlParts, " " \o op \o " ") \o <<")">>, params)

mathOperationSQL(rs, op) ==
    IF HasErr(rs) THEN Fail(rs[FirstErr(rs)].err)
    ELSE Ok(Join([i \in 1..Len(rs) |-> rs[i].sql], " " \o op \o " "), <<>>)

sqlFuncSQL(name, rs) ==
    IF HasErr(rs)
    THEN Fail(<<"arg[" \o ToString(FirstErr(rs) - 1) \o "]">> \o rs[FirstErr(rs)].err)
    ELSE Ok(<<name \o "(">> \o Join([i \in 1..Len(rs) |-> rs[i].sql], ", ") \o <<")">>,
            Flat([i \in 1..Len(rs) |-> rs[i].args]))

Placeholders(n) == Join([i \in 1..n |-> <<Ph>>], ", ")

RECURSIVE ToSQL(_)
\* A literal that writes its value into the text.
LiteralSQLInline(v) == Ok(<<v>>, <<>>)

LiteralSQL(v) == Ok(<<Ph>>, <<v>>)

ToSQL(e) ==
    CASE e.t = "field" -> FieldSQL(e)
      [] e.t = "lit" -> LiteralSQL(e.v)
      [] e.t = "raw" -> Ok(e.sql, e.args)
      [] e.t = "noop" -> Ok(<<>>, <<>>)
      [] e.t = "err" -> Fail(<<e.msg>>)
      [] e.t = "cmp" ->
            LET f == ToSQL(e.f)
            IN  IF f.err # <<>> THEN Fail(f.err)
                ELSE Ok(f.sql \o <<" " \o e.op \o " ", Ph>>, f.args \o <<e.v>>)
      [] e.t = "like" ->
            LET f == ToSQL(e.f)
            IN  IF f.err # <<>> THEN Fail(f.err)
                ELSE Ok(f.sql \o <<" LIKE ", Ph>>, f.args \o <<e.v>>)
      [] e.t = "in" ->
            IF Len(e.vs) = 0 THEN Ok(<<>>, <<>>)
            ELSE LET f == ToSQL(e.f)
                 IN  IF f.err # <<>> THEN Fail(f.err)
                     ELSE Ok(f.sql \o <<" IN (">> \o Placeholders(Len(e.vs)) \o <<")">>,
                             f.args \o e.vs)
      [] e.t = "between" ->
            LET f == ToSQL(e.f)
            IN  IF f.err # <<>> THEN Fail(f.err)
                ELSE Ok(f.sql \o <<" BETWEEN ", Ph, " AND ", Ph>>, f.args \o <<e.a, e.b>>)
      [] e.t = "betweenExpr" ->
            LET f == ToSQL(e.f)
                a == ToSQL(e.a)
                b == ToSQL(e.b)
            IN  IF f.err # <<>> THEN Fail(f.err)
                ELSE IF a.err # <<>> THEN Fail(a.err)
                ELSE IF b.err # <<>> THEN Fail(b.err)
                ELSE Ok(f.sql \o <<" BETWEEN ">> \o a.sql \o <<" AND ">> \o b.sql,
                        f.args \o a.args \o b.args)
      [] e.t = "fieldcmp" ->
            LET l == ToSQL(e.l)
                r == ToSQL(e.r)
            IN  IF l.err # <<>> THEN Fail(l.err)
                ELSE IF r.err # <<>> THEN Fail(r.err)
                ELSE Ok(l.sql \o <<" " \o e.op \o " ">> \o r.sql, l.args \o r.args)
      [] e.t = "null" ->
            LET f == ToSQL(e.f)
            IN  IF f.err # <<>> THEN Fail(f.err)
                ELSE Ok(f.sql \o <<IF e.isNull THEN " IS NULL" ELSE " IS NOT NULL">>, f.args)
      [] e.t = "and" -> joinCodnitions([i \in 1..Len(e.cs) |-> ToSQL(e.cs[i])], "AND")
      [] e.t = "or" -> joinCodnitions([i \in 1..Len(e.cs) |-> ToSQL(e.cs[i])], "OR")
      [] e.t = "not" ->
            IF Len(e.cs) = 0 THEN Ok(<<>>, <<>>)
            ELSE LET c == IF Len(e.cs) > 1 THEN ToSQL(And(e.cs)) ELSE ToSQL(e.cs[1])
                 IN  IF c.err # <<>> THEN Fail(c.err)
                     ELSE Ok(<<"NOT (">> \o c.sql \o <<")">>, c.args)
      [] e.t = "paren" ->
            LET p == ToSQL(e.e)
            IN  IF p.err # <<>> THEN Fail(p.err)
                ELSE Ok(<<"(">> \o p.sql \o <<")">>, p.args)
      [] e.t = "math" -> mathOperationSQL([i \in 1..Len(e.es) |-> ToSQL(e.es[i])], e.op)
      [] e.t = "func" -> sqlFuncSQL(e.name, [i \in 1..Len(e.as) |-> ToSQL(e.as[i])])
      [] e.t = "alias" ->
            LET a == ToSQL(e.e)
            IN  IF a.err # <<>> THEN Fail(a.err)
                ELSE Ok(a.sql \o <<" AS " \o Q(e.alias)>>, a.args)
      [] e.t = "fieldop" ->
            Ok(<<Q(e.f.table) \o "." \o Q(e.f.name), e.op, Ph>>, <<e.v>>)
      [] e.t = "agg" ->
            LET f == ToSQL(e.f)
            IN  IF f.err # <<>> THEN Fail(f.err)
                ELSE Ok(<<e.name \o "(">> \o f.sql \o <<")">>, f.args)
      [] e.t = "having" ->
            LET a == ToSQL(e.a)
            IN  IF a.err # <<>> THEN Fail(a.err)
                ELSE Ok(a.sql \o <<" " \o e.op \o " ", Ph>>, a.args \o <<e.v>>)
      [] e.t = "order" ->
            LET o == ToSQL(e.e)
            IN  IF o.err # <<>> THEN Fail(o.err)
                ELSE Ok(o.sql \o <<IF e.desc THEN " DESC" ELSE " ASC">>, o.args)

ToExpressionSQL(e) ==
    IF e.t = "fieldop"
    THEN [sql |-> <<Q(e.f.table) \o "." \o Q(e.f.name), e.op>>, value |-> e.v]
    ELSE [sql |-> <<>>, value |-> e.v]

-----------------------------------------------------------------------------
(* The values the model draws its inputs from *)

UserID == Field("int64", "users", "id")

UserName == Field("string", "users", "name")

UserAge == Field("int64", "users", "age")

PostUserID == Field("int64", "posts", "user_id")

IDEq == Cmp(UserID, "=", "v1")

NameLike == Like(UserName, "v2")

Atoms ==
    { UserID, Lit("v1"), NoOp, IDEq, NameLike,
      InCond(UserID, <<"v1", "v2">>), Between(UserAge, "v1", "v2"),
      Null(UserName, TRUE), FieldCmp(UserID, "=", PostUserID) }

Operands == { IDEq, NoOp }

Compose(S) ==
    UNION { { And(<<a, b>>), Or(<<b, a>>), Not(<<a>>), Paren(a),
              mathOpExprs("+", <<a, b>>), mathOpExprs("-", <<a>>), mathOpExprs("/", <<>>),
              Func("COALESCE", <<b, a>>) } : a \in S, b \in Operands }

RECURSIVE Exprs(_)
Exprs(d) == IF d = 0 THEN Atoms ELSE Exprs(d - 1) \cup Compose(Exprs(d - 1))

CondAtoms == { IDEq, NameLike, NoOp, ErrExpr("e1") }

RECURSIVE Lists(_, _)
Lists(S, n) ==
    IF n = 0 THEN { <<>> }
    ELSE Lists(S, n - 1) \cup { Append(l, x) : l \in { m \in Lists(S, n - 1) : Len(m) = n - 1 }, x \in S }

AndOrs == UNION { { And(cs), Or(cs) } : cs \in Lists(CondAtoms, MaxOperands) }

FieldTypes == { "int64", "int32", "float64", "string", "time", "bool" }

\* A field of each type, declared with and without a table name.
TypedFields == { Field(ft, tn, "col") : ft \in FieldTypes, tn \in { "", "users" } }

ExprSet == Exprs(MaxDepth) \cup AndOrs \cup TypedFields

TableNames == { "", "users" }

-----------------------------------------------------------------------------
(* SelectBuilder *)

Select(fields) ==
    [ fields |-> fields, tableName |-> "", joins |-> <<>>, conditions |-> <<>>,
      excludeFields |-> <<>>, groupBys |-> <<>>, havings |-> <<>>, orderBys |-> <<>>,
      limit |-> 0, offset |-> 0, hasLimit |-> FALSE, hasOffset |-> FALSE ]

Renders(es) == [i \in 1..Len(es) |-> ToSQL(es[i])]

Sqls(rs) == [i \in 1..Len(rs) |-> rs[i].sql]

Args(rs) == Flat([i \in 1..Len(rs) |-> rs[i].args])

Wrapped(msg, rs) == Fail(<<msg>> \o rs[FirstErr(rs)].err)

RECURSIVE NotExcluded(_, _)
NotExcluded(rs, names) ==
    IF rs = <<>> THEN <<>>
    ELSE (IF \E i \in 1..Len(names) : names[i] = Head(rs).sql THEN <<>> ELSE <<Head(rs)>>)
         \o NotExcluded(Tail(rs), names)

\* The SELECT list without the check of an exclusion over zero selected fields.
SelectFieldsUnchecked(b) ==
    With(<<Renders(b.excludeFields), Renders(b.fields)>>, LAMBDA r :
        IF HasErr(r[1]) THEN Wrapped("failed to build exclude field", r[1])
        ELSE IF HasErr(r[2]) THEN Wrapped("failed to build select field", r[2])
        ELSE With(NotExcluded(r[2], Sqls(r[1])), LAMBDA kept :
                 Ok(<<"SELECT ">> \o Join(Sqls(kept), ", "), Args(kept))))

SelectFields(b) ==
    With(<<Renders(b.excludeFields), Renders(b.fields)>>, LAMBDA r :
        LET xs == r[1]
            fs == r[2]
        IN  IF Len(b.fields) = 0 /\ Len(b.excludeFields) > 0
            THEN Fail(<<"exclude fields without selected fields">>)
            ELSE IF HasErr(xs) THEN Wrapped("failed to build exclude field", xs)
            ELSE IF HasErr(fs) THEN Wrapped("failed to build select field", fs)
            ELSE With(NotExcluded(fs, Sqls(xs)), LAMBDA kept :
                     Ok(<<"SELECT ">> \o Join(Sqls(kept), ", "), Args(kept))))

SelectFrom(b) == Ok(<<" FROM ", Q(b.tableName)>>, <<>>)

JoinClause(j, r) ==
    Ok(<<" " \o j.joinType \o " ", Q(j.tableName), " ON ">> \o r.sql, r.args)

SelectJoins(b) ==
    LET rs == [i \in 1..Len(b.joins) |-> ToSQL(b.joins[i].condition)]
        cs == [i \in 1..Len(b.joins) |-> JoinClause(b.joins[i], rs[i])]
    IN  IF HasErr(rs) THEN Wrapped("failed to build join condition", rs)
        ELSE Ok(Flat(Sqls(cs)), Args(cs))

AndClause(keyword, conds, msg) ==
    LET rs == Renders(conds)
        kept == SkipEmpty(rs)
    IN  IF HasErr(rs) THEN Wrapped(msg, rs)
        ELSE IF Len(kept) = 0 THEN Ok(<<>>, <<>>)
        ELSE Ok(<<keyword>> \o Join(Sqls(kept), " AND "), Args(kept))

CommaClause(keyword, es, msg) ==
    LET rs == Renders(es)
    IN  IF Len(es) = 0 THEN Ok(<<>>, <<>>)
        ELSE IF HasErr(rs) THEN Wrapped(msg, rs)
        ELSE Ok(<<keyword>> \o Join(Sqls(rs), ", "), Args(rs))

\* The two integers of the short form written limit first.
LimitOffsetLimitFirst(b) ==
    IF b.hasLimit /\ b.hasOffset
    THEN Ok(<<" LIMIT ", ToString(b.limit), ",", ToString(b.offset)>>, <<>>)
    ELSE IF b.hasLimit THEN Ok(<<" LIMIT ", ToString(b.limit)>>, <<>>)
    ELSE IF b.hasOffset THEN Ok(<<" OFFSET ", ToString(b.offset)>>, <<>>)
    ELSE Ok(<<>>, <<>>)

LimitOffset(b) ==
    IF b.hasLimit /\ b.hasOffset
    THEN Ok(<<" LIMIT ", ToString(b.offset), ",", ToString(b.limit)>>, <<>>)
    ELSE IF b.hasLimit THEN Ok(<<" LIMIT ", ToString(b.limit)>>, <<>>)
    ELSE IF b.hasOffset THEN Ok(<<" OFFSET ", ToString(b.offset)>>, <<>>)
    ELSE Ok(<<>>, <<>>)

\* The clauses with WHERE written before the JOINs.
SelectClausesWhereFirst(b) ==
    << SelectFields(b),
       SelectFrom(b),
       AndClause(" WHERE ", b.conditions, "failed to build where condition"),
       SelectJoins(b),
       CommaClause(" GROUP BY ", b.groupBys, "failed to build group by condition"),
       AndClause(" HAVING ", b.havings, "failed to build having condition"),
       CommaClause(" ORDER BY ", b.orderBys, "failed to build order by condition"),
       LimitOffset(b) >>

SelectClauses(b) ==
    << SelectFields(b),
       SelectFrom(b),
       SelectJoins(b),
       AndClause(" WHERE ", b.conditions, "failed to build where condition"),
       CommaClause(" GROUP BY ", b.groupBys, "failed to build group by condition"),
       AndClause(" HAVING ", b.havings, "failed to build having condition"),
       CommaClause(" ORDER BY ", b.orderBys, "failed to build order by condition"),
       LimitOffset(b) >>

SelectSQL(b) ==
    With(SelectClauses(b), LAMBDA cs :
        IF b.tableName = "" THEN Fail(<<"from table is required">>)
        ELSE IF HasErr(cs) THEN Fail(cs[FirstErr(cs)].err)
        ELSE Ok(Flat(Sqls(cs)), Args(cs)))

SelSize(b) ==
    (IF b.tableName = "" THEN 0 ELSE 1) + Len(b.joins) + Len(b.conditions)
    + Len(b.excludeFields) + Len(b.groupBys) + Len(b.havings) + Len(b.orderBys)
    + (IF b.hasLimit THEN 1 ELSE 0) + (IF b.hasOffset THEN 1 ELSE 0)

\* The clause a builder field belongs to, in the order SQL() renders them.
ClauseSet(b) ==
    (IF b.tableName # "" THEN {1} ELSE {})
    \cup (IF b.joins # <<>> THEN {2} ELSE {})
    \cup (IF b.conditions # <<>> THEN {3} ELSE {})
    \cup (IF b.groupBys # <<>> THEN {4} ELSE {})
    \cup (IF b.havings # <<>> THEN {5} ELSE {})
    \cup (IF b.orderBys # <<>> THEN {6} ELSE {})
    \cup (IF b.hasLimit \/ b.hasOffset THEN {7} ELSE {})

SelFieldLists == { <<>>, <<UserID, Func("JSON_EXTRACT", <<UserName, Lit("v0")>>)>> }

SelCondArgs == { <<>>, <<IDEq>>, <<IDEq, NameLike>> }

JoinConds == { Cmp(PostUserID, "=", "v3") }

HavingArgs == { <<HavingCond(Agg("COUNT", UserID), ">", "v4")>> }

OrderBys == { OrderField(Func("IFNULL", <<UserAge, Lit("v5")>>), TRUE) }

LimitVals == { 10 }

OffsetVals == { 20 }

SelCall(k, b) ==
    /\ mode = "select"
    /\ SelSize(sel) < MaxSelCalls
    /\ sel' = b
    /\ late' = (late \/ \E c \in ClauseSet(sel) : c > k)
    /\ out' = NoOut
    /\ UNCHANGED <<mode, call, orm, ex, ins, upd, del, log>>

SelFrom == \E t \in TableNames \ {""} : SelCall(1, [sel EXCEPT !.tableName = t])

SelJoin == \E c \in JoinConds :
    SelCall(2, [sel EXCEPT !.joins =
        Append(@, [tableName |-> "posts", condition |-> c, joinType |-> "JOIN"])])

SelLeftJoin == \E c \in JoinConds :
    SelCall(2, [sel EXCEPT !.joins =
        Append(@, [tableName |-> "posts", condition |-> c, joinType |-> "LEFT JOIN"])])

SelWhere == \E v \in BOOLEAN, cs \in SelCondArgs :
    SelCall(3, [sel EXCEPT !.conditions = Append(@, Optional(v, cs))])

SelExclude == \E f \in { UserID } :
    SelCall(0, [sel EXCEPT !.excludeFields = Append(@, f)])

SelGroupBy == \E f \in { UserAge } :
    SelCall(4, [sel EXCEPT !.groupBys = Append(@, f)])

SelHaving == \E v \in BOOLEAN, cs \in HavingArgs :
    SelCall(5, [sel EXCEPT !.havings = Append(@, Optional(v, cs))])

SelOrderBy == \E o \in OrderBys :
    SelCall(6, [sel EXCEPT !.orderBys = Append(@, o)])

SelLimit == \E n \in LimitVals :
    SelCall(7, [sel EXCEPT !.limit = n, !.hasLimit = TRUE])

SelOffset == \E n \in OffsetVals :
    SelCall(7, [sel EXCEPT !.offset = n, !.hasOffset = TRUE])

SelSQL ==
    /\ mode = "select"
    /\ out' = SelectSQL(sel)
    /\ UNCHANGED <<mode, call, orm, ex, sel, ins, upd, del, log, late>>

NextSelect ==
    \/ SelFrom \/ SelJoin \/ SelLeftJoin \/ SelWhere \/ SelExclude \/ SelGroupBy
    \/ SelHaving \/ SelOrderBy \/ SelLimit \/ SelOffset \/ SelSQL

-----------------------------------------------------------------------------
(* InsertIntoBuilder *)

InsertInto(tableName) == [tableName |-> tableName, updates |-> <<>>, err |-> <<>>]

\* Set without the early return on a staged error: the latest failure wins.
InsertSetLastError(b, f, value) ==
    LET r == ToSQL(value)
    IN  IF r.err # <<>>
        THEN [b EXCEPT !.err = <<"SET field " \o Q(f.name)>> \o r.err]
        ELSE [b EXCEPT !.updates = Append(@, [field |-> f, expr |-> r.sql, params |-> r.args])]

InsertSet(b, f, value) ==
    LET r == ToSQL(value)
    IN  IF b.err # <<>> THEN b
        ELSE IF r.err # <<>>
        THEN [b EXCEPT !.err = <<"SET field " \o Q(f.name)>> \o r.err]
        ELSE [b EXCEPT !.updates = Append(@, [field |-> f, expr |-> r.sql, params |-> r.args])]

InsertAssignment(u) == Ok(<<Q(u.field.name), "=">> \o u.expr, u.params)

InsertSQL(b) ==
    LET as == [i \in 1..Len(b.updates) |-> InsertAssignment(b.updates[i])]
    IN  IF b.err # <<>> THEN Fail(b.err)
        ELSE IF b.tableName = "" THEN Fail(<<"table name is required">>)
        ELSE IF Len(b.updates) = 0 THEN Fail(<<"no columns specified">>)
        ELSE Ok(<<"INSERT INTO ", Q(b.tableName), " SET ">> \o Join(Sqls(as), ", "), Args(as))

InsSets ==
    { <<UserName, Lit("v1")>>, <<UserAge, Func("ABS", <<Lit("v2")>>)>>,
      <<UserName, Func("UPPER", <<ErrExpr("e1")>>)>>, <<UserAge, ErrExpr("e2")>> }

InsSet == \E c \in InsSets :
    /\ mode = "insert"
    /\ Len(log) < MaxCalls
    /\ ins' = InsertSet(ins, c[1], c[2])
    /\ log' = Append(log, c)
    /\ out' = NoOut
    /\ UNCHANGED <<mode, call, orm, ex, sel, upd, del, late>>

\* SQL() that hands the staged error out once and clears it.
InsSQLClearsError ==
    /\ mode = "insert"
    /\ out' = InsertSQL(ins)
    /\ ins' = [ins EXCEPT !.err = <<>>]
    /\ UNCHANGED <<mode, call, orm, ex, sel, upd, del, log, late>>

InsSQL ==
    /\ mode = "insert"
    /\ out' = InsertSQL(ins)
    /\ UNCHANGED <<mode, call, orm, ex, sel, ins, upd, del, log, late>>

NextInsert == InsSet \/ InsSQL

-----------------------------------------------------------------------------
(* UpdateBuilder *)

Update(tableName) == [tableName |-> tableName, updates |-> <<>>, conditions |-> <<>>]

UpdateSet(b, f, value) ==
    LET x == ToExpressionSQL(value)
    IN  [b EXCEPT !.updates = Append(@, [field |-> f, expr |-> <<"=">> \o x.sql, value |-> x.value])]

UpdateAssignment(u) == Ok(<<Q(u.field.name)>> \o u.expr \o <<Ph>>, <<u.value>>)

RECURSIVE UpdateWhereLoop(_, _)
UpdateWhereLoop(rs, i) ==
    IF i > Len(rs) THEN <<>>
    ELSE (IF i > 1 THEN <<" AND ">> ELSE <<>>) \o rs[i].sql \o UpdateWhereLoop(rs, i + 1)

UpdateWhere(b) ==
    LET rs == Renders(b.conditions)
    IN  IF Len(b.conditions) = 0 THEN Ok(<<>>, <<>>)
        ELSE IF HasErr(rs) THEN Wrapped("failed to build where condition", rs)
        ELSE Ok(<<" WHERE ">> \o UpdateWhereLoop(rs, 1), Args(rs))

\* SQL() that collects the WHERE args before the SET values.
UpdateSQLWhereArgsFirst(b) ==
    LET as == [i \in 1..Len(b.updates) |-> UpdateAssignment(b.updates[i])]
        w == UpdateWhere(b)
    IN  IF b.tableName = "" THEN Fail(<<"table name is required">>)
        ELSE IF Len(b.updates) = 0 THEN Fail(<<"at least one SET expression is required">>)
        ELSE IF w.err # <<>> THEN w
        ELSE Ok(<<"UPDATE ", Q(b.tableName), " SET ">> \o Join(Sqls(as), ", ") \o w.sql,
                w.args \o Args(as))

UpdateSQL(b) ==
    LET as == [i \in 1..Len(b.updates) |-> UpdateAssignment(b.updates[i])]
        w == UpdateWhere(b)
    IN  IF b.tableName = "" THEN Fail(<<"table name is required">>)
        ELSE IF Len(b.updates) = 0 THEN Fail(<<"at least one SET expression is required">>)
        ELSE IF w.err # <<>> THEN w
        ELSE Ok(<<"UPDATE ", Q(b.tableName), " SET ">> \o Join(Sqls(as), ", ") \o w.sql,
                Args(as) \o w.args)

UpdSets ==
    { <<UserName, Lit("v1")>>, <<UserAge, FieldOp(UserAge, "+", "v2")>>,
      <<UserAge, FieldOp(UserAge, "-", "v3")>>, <<UserName, FieldOp(UserName, "+", "v4")>> }

WhereConds == { Cmp(UserID, "=", "v6"), Like(UserName, "v7"), NoOp, ErrExpr("e3") }

UpdSet == \E c \in UpdSets :
    /\ mode = "update"
    /\ Len(upd.updates) + Len(upd.conditions) < MaxCalls
    /\ upd' = UpdateSet(upd, c[1], c[2])
    /\ log' = Append(log, c)
    /\ out' = NoOut
    /\ UNCHANGED <<mode, call, orm, ex, sel, ins, del, late>>

UpdWhere == \E c \in WhereConds :
    /\ mode = "update"
    /\ Len(upd.updates) + Len(upd.conditions) < MaxCalls
    /\ upd' = [upd EXCEPT !.conditions = Append(@, c)]
    /\ out' = NoOut
    /\ UNCHANGED <<mode, call, orm, ex, sel, ins, del, log, late>>

UpdSQL ==
    /\ mode = "update"
    /\ out' = UpdateSQL(upd)
    /\ UNCHANGED <<mode, call, orm, ex, sel, ins, upd, del, log, late>>

NextUpdate == UpdSet \/ UpdWhere \/ UpdSQL

-----------------------------------------------------------------------------
(* DeleteBuilder *)

DeleteFrom(tableName) ==
    [tableName |-> tableName, conditions |-> <<>>, limit |-> 0, hasLimit |-> FALSE]

RECURSIVE DeleteWhereLoop(_, _)
DeleteWhereLoop(rs, i) ==
    IF i > Len(rs) THEN <<>>
    ELSE (IF i > 1 THEN <<" AND ">> ELSE <<>>) \o rs[i].sql \o DeleteWhereLoop(rs, i + 1)

DeleteWhere(b) ==
    LET rs == Renders(b.conditions)
    IN  IF Len(b.conditions) = 0 THEN Ok(<<>>, <<>>)
        ELSE IF HasErr(rs) THEN Wrapped("failed to build where condition", rs)
        ELSE Ok(<<" WHERE ">> \o DeleteWhereLoop(rs, 1), Args(SkipEmpty(rs)))

DeleteSQL(b) ==
    LET w == DeleteWhere(b)
    IN  IF b.tableName = "" THEN Fail(<<"table name is required">>)
        ELSE IF w.err # <<>> THEN w
        ELSE Ok(<<"DELETE FROM ", Q(b.tableName)>> \o w.sql
                \o (IF b.hasLimit THEN <<" LIMIT ", ToString(b.limit)>> ELSE <<>>), w.args)

DelWhere == \E c \in WhereConds :
    /\ mode = "delete"
    /\ Len(del.conditions) + (IF del.hasLimit THEN 1 ELSE 0) < MaxCalls
    /\ del' = [del EXCEPT !.conditions = Append(@, c)]
    /\ out' = NoOut
    /\ UNCHANGED <<mode, call, orm, ex, sel, ins, upd, log, late>>

DelLimit == \E n \in LimitVals :
    /\ mode = "delete"
    /\ Len(del.conditions) + (IF del.hasLimit THEN 1 ELSE 0) < MaxCalls
    /\ del' = [del EXCEPT !.limit = n, !.hasLimit = TRUE]
    /\ out' = NoOut
    /\ UNCHANGED <<mode, call, orm, ex, sel, ins, upd, log, late>>

DelSQL ==
    /\ mode = "delete"
    /\ out' = DeleteSQL(del)
    /\ UNCHANGED <<mode, call, orm, ex, sel, ins, upd, del, log, late>>

NextDelete == DelWhere \/ DelLimit \/ DelSQL

-----------------------------------------------------------------------------
(* Go names.  A name is the sequence of its characters, so that the naming  *)
(* rule and the snake_case conversion work on the characters themselves.    *)

ToLower ==
    ("A" :> "a") @@ ("C" :> "c") @@ ("D" :> "d") @@ ("E" :> "e") @@ ("I" :> "i")
    @@ ("N" :> "n") @@ ("T" :> "t") @@ ("U" :> "u")

IsUpper(c) == c \in DOMAIN ToLower

RECURSIVE Str(_)
Str(cs) == IF cs = <<>> THEN "" ELSE Head(cs) \o Str(Tail(cs))

RECURSIVE SnakeFrom(_, _)
SnakeFrom(cs, i) ==
    IF i > Len(cs) THEN ""
    ELSE (IF IsUpper(cs[i])
          THEN (IF i > 1 /\ ~IsUpper(cs[i - 1]) THEN "_" ELSE "") \o ToLower[cs[i]]
          ELSE cs[i]) \o SnakeFrom(cs, i + 1)

CamelToSnake(cs) == SnakeFrom(cs, 1)

hasConsecutiveUppercase(cs) ==
    \E i \in 1..(Len(cs) - 1) : IsUpper(cs[i]) /\ IsUpper(cs[i + 1])

NameId == <<"I", "d">>

NameID == <<"I", "D">>

NameName == <<"N", "a", "m", "e">>

NameAge == <<"A", "g", "e">>

NameCount == <<"C", "o", "u", "n", "t">>

NameExtra == <<"E", "x", "t", "r", "a">>

NameCreateTime == <<"C", "r", "e", "a", "t", "e", "T", "i", "m", "e">>

NameUpdateTime == <<"U", "p", "d", "a", "t", "e", "T", "i", "m", "e">>

-----------------------------------------------------------------------------
(* Record types, optional types and tables, as reflection shows them *)

GoField(name, type) == [name |-> name, type |-> type, ptr |-> FALSE, exported |-> TRUE]

PtrField(name, type) == [name |-> name, type |-> type, ptr |-> TRUE, exported |-> TRUE]

Unexported(f) == [f EXCEPT !.exported = FALSE]

Struct(fields) == [kind |-> "struct", fields |-> fields]

NotStruct(kind) == [kind |-> kind, fields |-> <<>>]

Kind(type) == IF type = "time.Time" THEN "struct" ELSE type

KindOf(f) == IF f.ptr THEN "ptr" ELSE Kind(f.type)

TypeString(f) == IF f.ptr THEN "*" \o f.type ELSE f.type

Table(name, fields) == [name |-> name, fields |-> fields]

\* The fields of a table, by name (a Go map: the last field of a name wins).
HasTableField(tbl, name) == \E i \in 1..Len(tbl.fields) : tbl.fields[i].name = name

TableFieldOf(tbl, name) ==
    tbl.fields[CHOOSE i \in 1..Len(tbl.fields) :
        /\ tbl.fields[i].name = name
        /\ \A j \in (i + 1)..Len(tbl.fields) : tbl.fields[j].name # name]

ErrNotStruct == "model type must be a struct"

ErrNotPointerStruct == "optional fields type must be a struct with pointer fields"

ErrFieldMismatch == "field mismatch between model and table"

ErrFieldTypeMismatch == "field type mismatch between model and table"

ErrFieldCountMismatch == "number of fields in model does not match table"

ErrInvalidFieldNaming == "field name must be strict CamelCase (no consecutive uppercase letters)"

\* A validation result: the error chain and, for a field-set mismatch, the
\* two itemized lists (Go prints them in map order; the model keeps the sets).
VErr(err) == [err |-> err, missingInTable |-> {}, missingInModel |-> {}]

VOk == VErr(<<>>)

checkFieldTypeCompatibility(structType, tableField) ==
    CASE tableField.ftype = "int64" ->
            IF KindOf(structType) \in {"int64", "int", "bool"} THEN <<>>
            ELSE <<"expected int/int64 for Int64Field, got " \o TypeString(structType)>>
      [] tableField.ftype = "int32" ->
            IF KindOf(structType) \in {"int32", "int", "bool"} THEN <<>>
            ELSE <<"expected int32 for Int32Field, got " \o TypeString(structType)>>
      [] tableField.ftype = "string" ->
            IF KindOf(structType) = "string" THEN <<>>
            ELSE <<"expected string for StringField, got " \o TypeString(structType)>>
      [] tableField.ftype = "time" ->
            IF TypeString(structType) = "time.Time" THEN <<>>
            ELSE <<"expected time.Time for TimeField, got " \o TypeString(structType)>>
      [] tableField.ftype = "float64" ->
            IF KindOf(structType) = "float64" THEN <<>>
            ELSE <<"expected float64 for Float64Field, got " \o TypeString(structType)>>
      [] OTHER -> <<"unsupported table field type: " \o tableField.ftype>>

\* Characters of a name that are no letters.
NonLetters == { "0", "1", "2", "3", "4", "5", "6", "7", "8", "9", "_" }

IsLower(c) == ~IsUpper(c) /\ c \notin NonLetters

\* Of a run of capitals, all but the first are lowered, except a capital that
\* a lowercase letter follows (the start of the next word).
toStrictCamelCase(cs) ==
    [i \in 1..Len(cs) |->
        IF /\ IsUpper(cs[i]) /\ i > 1 /\ IsUpper(cs[i - 1])
           /\ ~(i + 1 <= Len(cs) /\ IsLower(cs[i + 1]))
        THEN ToLower[cs[i]]
        ELSE cs[i]]

validateFieldNaming(cs) ==
    IF hasConsecutiveUppercase(cs)
    THEN <<ErrInvalidFieldNaming,
           "field '" \o Str(cs) \o "' has consecutive uppercase letters, use '"
           \o Str(toStrictCamelCase(cs)) \o "' instead">>
    ELSE <<>>

\* The error of one table field in the loop that builds tableFieldMap.
TableFieldErr(f) ==
    IF f.name \in {"create_time", "update_time"} /\ f.ftype # "time"
    THEN <<"table field '" \o f.name \o "' must be of type TimeField">>
    ELSE <<>>

\* The error of one record field in the loop that builds modelFieldMap.
ModelFieldErr(f) ==
    IF ~f.exported THEN <<>>
    ELSE IF validateFieldNaming(f.name) # <<>> THEN validateFieldNaming(f.name)
    ELSE IF f.name \in {NameCreateTime, NameUpdateTime} /\ (f.ptr \/ f.type # "time.Time")
    THEN <<"model field '" \o Str(f.name) \o "' must be of type time.Time">>
    ELSE <<>>

\* The error of the last failing field instead of the first.
LastFieldErr(errs) == errs[CHOOSE i \in 1..Len(errs) :
    errs[i] # <<>> /\ \A j \in (i + 1)..Len(errs) : errs[j] = <<>>]

FirstFieldErr(errs) == errs[CHOOSE i \in 1..Len(errs) :
    errs[i] # <<>> /\ \A j \in 1..(i - 1) : errs[j] = <<>>]

\* modelFieldMap's keys: the snake_cased names of the exported fields but Count.
ModelFieldNames(T) ==
    { CamelToSnake(T.fields[i].name) : i \in { j \in 1..Len(T.fields) :
        T.fields[j].exported /\ T.fields[j].name # NameCount } }

\* modelFieldMap[name]: the last exported field of that snake_cased name.
ModelFieldOf(T, name) ==
    T.fields[CHOOSE i \in 1..Len(T.fields) :
        /\ T.fields[i].exported /\ CamelToSnake(T.fields[i].name) = name
        /\ \A j \in (i + 1)..Len(T.fields) :
              ~(T.fields[j].exported /\ CamelToSnake(T.fields[j].name) = name)]

TableFieldNames(tbl) == { tbl.fields[i].name : i \in 1..Len(tbl.fields) }

\* The Count field that validation looks at: the last exported one.
HasCountField(T) == \E i \in 1..Len(T.fields) : T.fields[i].exported /\ T.fields[i].name = NameCount

CountFieldOf(T) ==
    T.fields[CHOOSE i \in 1..Len(T.fields) :
        /\ T.fields[i].exported /\ T.fields[i].name = NameCount
        /\ \A j \in (i + 1)..Len(T.fields) :
              ~(T.fields[j].exported /\ T.fields[j].name = NameCount)]

\* The record fields (snake_cased) that the table lacks.
MissingInTable(T, tbl) == ModelFieldNames(T) \ TableFieldNames(tbl)

\* The loop over the table's fields forgotten: no table field is ever missing.
MissingInModelUnchecked(T, tbl) == {}

\* The table fields that the record lacks.
MissingInModel(T, tbl) == TableFieldNames(tbl) \ ModelFieldNames(T)

\* The possible results of validateModelType: one, except that the type check
\* ranges over a Go map and reports whichever incompatible field it meets first.
validateModelType(T, tbl) ==
    LET tableErrs == [i \in 1..Len(tbl.fields) |-> TableFieldErr(tbl.fields[i])]
        modelErrs == [i \in 1..Len(T.fields) |-> ModelFieldErr(T.fields[i])]
        missingInTable == MissingInTable(T, tbl)
        missingInModel == MissingInModel(T, tbl)
        incompatible == { n \in ModelFieldNames(T) \cap TableFieldNames(tbl) :
            checkFieldTypeCompatibility(ModelFieldOf(T, n), TableFieldOf(tbl, n)) # <<>> }
    IN  IF T.kind # "struct" THEN { VErr(<<ErrNotStruct>>) }
        ELSE IF HasTableField(tbl, "count")
        THEN { VErr(<<"table must not contain a 'count' field, it is reserved for query operations">>) }
        ELSE IF \E i \in 1..Len(tableErrs) : tableErrs[i] # <<>>
        THEN { VErr(FirstFieldErr(tableErrs)) }
        ELSE IF \E i \in 1..Len(modelErrs) : modelErrs[i] # <<>>
        THEN { VErr(FirstFieldErr(modelErrs)) }
        ELSE IF HasCountField(T) /\ (CountFieldOf(T).ptr \/ CountFieldOf(T).type # "int64")
        THEN { VErr(<<"model's Count field must be of type int64">>) }
        ELSE IF missingInTable # {} \/ missingInModel # {}
        THEN { [err |-> <<ErrFieldCountMismatch>>,
                missingInTable |-> missingInTable, missingInModel |-> missingInModel] }
        ELSE IF incompatible # {}
        THEN { VErr(<<ErrFieldTypeMismatch, "field " \o n>>
                    \o checkFieldTypeCompatibility(ModelFieldOf(T, n), TableFieldOf(tbl, n)))
               : n \in incompatible }
        ELSE { VOk }

\* modelFieldMap of validateOptionalType: by Go name, all exported fields.
HasModelField(T, name) ==
    \E i \in 1..Len(T.fields) : T.fields[i].exported /\ T.fields[i].name = name

ModelFieldNamed(T, name) ==
    T.fields[CHOOSE i \in 1..Len(T.fields) :
        /\ T.fields[i].exported /\ T.fields[i].name = name
        /\ \A j \in (i + 1)..Len(T.fields) :
              ~(T.fields[j].exported /\ T.fields[j].name = name)]

\* The error of one field of the optional type.
OptionalFieldErr(T, f) ==
    IF ~f.exported THEN <<>>
    ELSE IF f.name \in {NameCreateTime, NameUpdateTime} /\ ~f.ptr
    THEN <<ErrNotPointerStruct, "optional field " \o Str(f.name) \o " must be a pointer">>
    ELSE IF f.name \in {NameCreateTime, NameUpdateTime} /\ f.type # "time.Time"
    THEN <<ErrFieldTypeMismatch, "optional field " \o Str(f.name) \o " must be a *time.Time">>
    ELSE IF ~HasModelField(T, f.name)
    THEN <<ErrFieldMismatch, "optional field " \o Str(f.name) \o " not found in model">>
    ELSE IF ~f.ptr
    THEN <<ErrNotPointerStruct, "optional field " \o Str(f.name) \o " must be a pointer">>
    ELSE IF ModelFieldNamed(T, f.name).ptr \/ f.type # ModelFieldNamed(T, f.name).type
    THEN <<ErrFieldTypeMismatch, "optional field " \o Str(f.name) \o " pointer type "
            \o f.type \o " doesn't match model field type">>
    ELSE <<>>

validateOptionalType(T, P) ==
    LET errs == [i \in 1..Len(P.fields) |-> OptionalFieldErr(T, P.fields[i])]
    IN  IF P.kind # "struct" THEN VErr(<<ErrNotPointerStruct>>)
        ELSE IF \E i \in 1..Len(errs) : errs[i] # <<>> THEN VErr(FirstFieldErr(errs))
        ELSE VOk

\* Validate that forgets the optional type.
ValidateModelOnly(T, P, tbl) ==
    { IF r.err # <<>> THEN [r EXCEPT !.err = <<"model validation failed">> \o @] ELSE VOk
      : r \in validateModelType(T, tbl) }

\* The possible results of ORM.Validate.
Validate(T, P, tbl) ==
    { IF r.err # <<>> THEN [r EXCEPT !.err = <<"model validation failed">> \o @]
      ELSE IF validateOptionalType(T, P).err # <<>>
      THEN VErr(<<"optional fields validation failed">> \o validateOptionalType(T, P).err)
      ELSE VOk
      : r \in validateModelType(T, tbl) }

-----------------------------------------------------------------------------
(* The bindings the model draws *)

UsersTable ==
    Table("users", <<Field("int64", "users", "id"), Field("string", "users", "name"),
                     Field("int64", "users", "age")>>)

PostsTable ==
    Table("posts", <<Field("int64", "posts", "id"), Field("string", "posts", "name"),
                     Field("time", "posts", "create_time"), Field("time", "posts", "update_time")>>)

NoIdTable ==
    Table("users", <<Field("string", "users", "name"), Field("int64", "users", "age")>>)

CountTable ==
    Table("users", <<Field("int64", "users", "id"), Field("string", "users", "name"),
                     Field("int64", "users", "age"), Field("int64", "users", "count")>>)

BadTimeTable ==
    Table("posts", <<Field("int64", "posts", "id"), Field("string", "posts", "name"),
                     Field("time", "posts", "create_time"), Field("int64", "posts", "update_time")>>)

Tables == { UsersTable, PostsTable, NoIdTable, CountTable, BadTimeTable }

User == Struct(<<GoField(NameId, "int64"), GoField(NameName, "string"), GoField(NameAge, "int")>>)

UserWithCount == Struct(User.fields \o <<GoField(NameCount, "int64")>>)

Post ==
    Struct(<<GoField(NameId, "int64"), GoField(NameName, "string"),
             GoField(NameCreateTime, "time.Time"), GoField(NameUpdateTime, "time.Time")>>)

UserExtra == Struct(User.fields \o <<GoField(NameExtra, "string")>>)

UserShort == Struct(<<GoField(NameId, "int64"), GoField(NameName, "string")>>)

NoIdUser == Struct(<<GoField(NameName, "string"), GoField(NameAge, "int")>>)

UserBadName == Struct(<<GoField(NameID, "int64"), GoField(NameName, "string"), GoField(NameAge, "int")>>)

UserBadType == Struct(<<GoField(NameId, "string"), GoField(NameName, "string"), GoField(NameAge, "int")>>)

PostBadTime ==
    Struct(<<GoField(NameCreateTime, "string"), GoField(NameID, "int64"),
             GoField(NameName, "string"), GoField(NameUpdateTime, "time.Time")>>)

RecordTypes ==
    { User, UserWithCount, Post, UserExtra, UserShort, NoIdUser, UserBadName, UserBadType,
      PostBadTime, NotStruct("int") }

\* The optional type that mirrors T: every field a pointer to T's field type.
Mirror(T) == Struct([i \in 1..Len(T.fields) |-> [T.fields[i] EXCEPT !.ptr = TRUE]])

\* The optional types tried with a record type T: its mirror and the mirror
\* with a field dropped, added, not a pointer, or of another element type.
OptionalTypes(T) ==
    LET M == Mirror(T)
        n == Len(M.fields)
    IN  { M, Struct(<<>>), NotStruct("string"),
          Struct(M.fields \o <<PtrField(NameExtra, "string")>>) }
        \cup (IF n = 0 THEN {}
              ELSE { Struct(SubSeq(M.fields, 1, n - 1)),
                     Struct([M.fields EXCEPT ![1].ptr = FALSE]),
                     Struct([M.fields EXCEPT ![1].type = "float64"]) })

-----------------------------------------------------------------------------
(* The binding ORM[T, P]: construction *)

NoORM == [state |-> "none"]

NoResult == [op |-> "none", err |-> <<>>]

\* A binding before its construction has run: the type arguments and the table.
Unvalidated(T, P, tbl) ==
    [ state |-> "unvalidated", T |-> T, P |-> P, table |-> tbl, verr |-> VOk,
      calls |-> <<>>, nops |-> 0, res |-> NoResult ]

\* Construction: Validate runs once; the binding is usable or an error is returned.
Bind ==
    /\ mode = "orm"
    /\ orm.state = "unvalidated"
    /\ \E r \in Validate(orm.T, orm.P, orm.table) :
          orm' = IF r.err = <<>>
                 THEN [orm EXCEPT !.state = "active"]
                 ELSE [orm EXCEPT !.state = "rejected",
                                  !.verr = [r EXCEPT !.err = <<"ORM validation failed">> \o @]]
    /\ UNCHANGED <<mode, call, ex, sel, ins, upd, del, log, late, out>>

-----------------------------------------------------------------------------
(* InsertIntoBuilder taking a field.Expression, as ORM.Insert uses it *)

ExpressionInsertSet(b, f, value) ==
    LET x == ToExpressionSQL(value)
    IN  [b EXCEPT !.updates = Append(@, [field |-> f, expr |-> x.sql, value |-> x.value])]

ExpressionInsertAssignment(u) ==
    Ok(<<Q(u.field.name)>> \o (IF u.expr = <<>> THEN <<"=", Ph>> ELSE <<"=">> \o u.expr),
       <<u.value>>)

ExpressionInsertSQL(b) ==
    LET as == [i \in 1..Len(b.updates) |-> ExpressionInsertAssignment(b.updates[i])]
    IN  IF b.tableName = "" THEN Fail(<<"table name is required">>)
        ELSE IF Len(b.updates) = 0 THEN Fail(<<"no columns specified">>)
        ELSE Ok(<<"INSERT INTO ", Q(b.tableName), " SET ">> \o Join(Sqls(as), ", "), Args(as))

-----------------------------------------------------------------------------
(* The operations of a binding *)

Nil == "<nil>"

ZeroTime == "0001-01-01"

Now == "<now>"

\* A pointer to a struct value: nil, or the values of its fields in order.
NilObj == [nil |-> TRUE, fields |-> <<>>]

Obj(vs) == [nil |-> FALSE, fields |-> vs]

\* A value of a field, named after the field so that values tell fields apart.
ValueOf(f) == "val_" \o CamelToSnake(f.name)

\* What an operation does before the engine: an error, or one engine call.
Plan(err, calls) == [err |-> err, calls |-> calls]

EngineCall(fn, r) == [fn |-> fn, sql |-> r.sql, args |-> r.args]

ErrNothingToUpdate == "ErrNothingToUpdate"

ErrMissingIDField == "ErrMissingIDField"

RawCondition(col, v) == [t |-> "raw", sql |-> <<Q(col), " = ", Ph>>, args |-> <<v>>]

\* ToConditions: one equality per non-nil field of the by-example object.
RECURSIVE ConditionsFrom(_, _, _)
ConditionsFrom(P, obj, i) ==
    IF i > Len(P.fields) THEN <<>>
    ELSE (IF P.fields[i].ptr /\ obj[i] = Nil THEN <<>>
          ELSE <<RawCondition(CamelToSnake(P.fields[i].name), obj[i])>>)
         \o ConditionsFrom(P, obj, i + 1)

ToConditions(o, condition) ==
    IF condition.nil THEN [err |-> <<"requires condition">>, conds |-> <<>>]
    ELSE [err |-> <<>>, conds |-> ConditionsFrom(o.P, condition.fields, 1)]

\* toIDCondition that does not look for the table's id field.
toIDConditionUnchecked(o, id) ==
    IF id = "0" THEN [err |-> <<"requires id, got 0">>, conds |-> <<>>]
    ELSE [err |-> <<>>, conds |-> <<Cmp(Field("int64", "", "id"), "=", id)>>]

toIDCondition(o, id) ==
    IF id = "0" THEN [err |-> <<"requires id, got 0">>, conds |-> <<>>]
    ELSE IF ~HasTableField(o.table, "id") THEN [err |-> <<ErrMissingIDField>>, conds |-> <<>>]
    ELSE [err |-> <<>>, conds |-> <<Cmp(Field("int64", "", "id"), "=", id)>>]

\* The kinds of value that update converts to a literal.
UpdateConvertible(f) ==
    Kind(f.type) \in {"string", "int", "int64", "int32", "float64", "bool"} \/ f.type = "time.Time"

\* The loop of update over the fields of the partial object: the Set calls.
RECURSIVE UpdateSets(_, _, _, _)
UpdateSets(o, data, i, b) ==
    IF i > Len(o.P.fields) THEN b
    ELSE LET f == o.P.fields[i]
             name == CamelToSnake(f.name)
         IN  IF ~f.exported \/ (f.ptr /\ data.fields[i] = Nil) \/ ~HasTableField(o.table, name)
                \/ ~UpdateConvertible(f)
             THEN UpdateSets(o, data, i + 1, b)
             ELSE UpdateSets(o, data, i + 1, UpdateSet(b, TableFieldOf(o.table, name), Lit(data.fields[i])))

\* update that never fills update_time in.
shouldAddUpdateTimeNever(P, data) == FALSE

shouldAddUpdateTime(P, data) ==
    \E i \in 1..Len(P.fields) :
        /\ P.fields[i].exported /\ P.fields[i].name = NameUpdateTime
        /\ \A j \in (i + 1)..Len(P.fields) :
              ~(P.fields[j].exported /\ P.fields[j].name = NameUpdateTime)
        /\ P.fields[i].ptr /\ data.fields[i] = Nil

\* update that decides "nothing to update" after the update_time auto-fill.
updateFillsFirst(o, conditions, data) ==
    IF data.nil THEN Plan(<<"requires data, got nil">>, <<>>)
    ELSE IF Len(conditions) = 0 THEN Plan(<<"requires conditions">>, <<>>)
    ELSE LET set == UpdateSets(o, data, 1, Update(o.table.name))
             filled == IF shouldAddUpdateTime(o.P, data)
                       THEN UpdateSet(set, TableFieldOf(o.table, "update_time"), Lit(Now))
                       ELSE set
             r == UpdateSQL([filled EXCEPT !.conditions = conditions])
         IN  IF Len(filled.updates) = 0 THEN Plan(<<ErrNothingToUpdate>>, <<>>)
             ELSE IF r.err # <<>> THEN Plan(<<"failed to build update SQL">> \o r.err, <<>>)
             ELSE Plan(<<>>, <<EngineCall("Exec", r)>>)

update(o, conditions, data) ==
    IF data.nil THEN Plan(<<"requires data, got nil">>, <<>>)
    ELSE IF Len(conditions) = 0 THEN Plan(<<"requires conditions">>, <<>>)
    ELSE LET set == UpdateSets(o, data, 1, Update(o.table.name))
             filled == IF shouldAddUpdateTime(o.P, data)
                       THEN UpdateSet(set, TableFieldOf(o.table, "update_time"), Lit(Now))
                       ELSE set
             r == UpdateSQL([filled EXCEPT !.conditions = conditions])
         IN  IF Len(set.updates) = 0 THEN Plan(<<ErrNothingToUpdate>>, <<>>)
             ELSE IF r.err # <<>> THEN Plan(<<"failed to build update SQL">> \o r.err, <<>>)
             ELSE Plan(<<>>, <<EngineCall("Exec", r)>>)

UpdateByID(o, id, data) ==
    LET c == toIDCondition(o, id)
    IN  IF c.err # <<>> THEN Plan(<<"failed to convert id to condition">> \o c.err, <<>>)
        ELSE update(o, c.conds, data)

UpdateBy(o, condition, data) ==
    LET c == ToConditions(o, condition)
    IN  IF condition.nil THEN Plan(<<"requires condition">>, <<>>)
        ELSE IF c.err # <<>>
        THEN Plan(<<"failed to convert condition to SQL conditions">> \o c.err, <<>>)
        ELSE update(o, c.conds, data)

\* The kinds of value that Insert converts to a literal.
InsertConvertible(f) ==
    ~f.ptr /\ (Kind(f.type) \in {"string", "int", "int64", "int32", "float64", "bool"}
               \/ f.type = "time.Time")

\* Insert that passes a zero CreateTime/UpdateTime through.
InsertValueAsIs(f, v) == v

\* The value Insert sets for a field: zero CreateTime/UpdateTime become time.Now().
InsertValue(f, v) ==
    IF f.type = "time.Time" /\ f.name \in {NameCreateTime, NameUpdateTime} /\ v = ZeroTime
    THEN Now ELSE v

\* The loop of Insert over the fields of the record: an error or the Set calls.
RECURSIVE InsertSets(_, _, _, _)
InsertSets(o, model, i, b) ==
    IF i > Len(o.T.fields) THEN [err |-> <<>>, builder |-> b]
    ELSE LET f == o.T.fields[i]
             name == CamelToSnake(f.name)
         IN  IF ~f.exported \/ f.name = NameCount THEN InsertSets(o, model, i + 1, b)
             ELSE IF ~HasTableField(o.table, name)
             THEN [err |-> <<"field " \o name \o " not found in table " \o o.table.name>>,
                   builder |-> b]
             ELSE IF ~InsertConvertible(f)
             THEN [err |-> <<"failed to convert field " \o Str(f.name) \o " to SQL value: " \o TypeString(f)>>,
                   builder |-> b]
             ELSE InsertSets(o, model, i + 1,
                     ExpressionInsertSet(b, TableFieldOf(o.table, name),
                                         Lit(InsertValue(f, model.fields[i]))))

Insert(o, model) ==
    IF model.nil THEN Plan(<<"model cannot be nil">>, <<>>)
    ELSE LET s == InsertSets(o, model, 1, [tableName |-> o.table.name, updates |-> <<>>])
             r == ExpressionInsertSQL(s.builder)
         IN  IF s.err # <<>> THEN Plan(s.err, <<>>)
             ELSE IF r.err # <<>> THEN Plan(<<"failed to build insert SQL">> \o r.err, <<>>)
             ELSE Plan(<<>>, <<EngineCall("ExecInsert", r)>>)

get(o, conditions) ==
    With(SelectSQL([Select(o.table.fields) EXCEPT !.tableName = o.table.name,
                        !.conditions = conditions, !.limit = 1, !.hasLimit = TRUE]),
         LAMBDA r : IF r.err # <<>> THEN Plan(<<"sql">> \o r.err, <<>>)
                    ELSE Plan(<<>>, <<EngineCall("Query", r)>>))

GetByID(o, id) ==
    LET c == toIDCondition(o, id)
    IN  IF c.err # <<>> THEN Plan(<<"failed to convert id to condition">> \o c.err, <<>>)
        ELSE get(o, c.conds)

GetBy(o, condition) ==
    LET c == ToConditions(o, condition)
    IN  IF condition.nil THEN Plan(<<"requires condition">>, <<>>)
        ELSE IF c.err # <<>>
        THEN Plan(<<"failed to convert condition to SQL conditions">> \o c.err, <<>>)
        ELSE get(o, c.conds)

deleteBy(o, conditions) ==
    IF Len(conditions) = 0 THEN Plan(<<"requires conditions">>, <<>>)
    ELSE With(DeleteSQL([DeleteFrom(o.table.name) EXCEPT !.conditions = conditions]),
              LAMBDA r : IF r.err # <<>> THEN Plan(<<"sql">> \o r.err, <<>>)
                         ELSE Plan(<<>>, <<EngineCall("Exec", r)>>))

DeleteByID(o, id) ==
    LET c == toIDCondition(o, id)
    IN  IF c.err # <<>> THEN Plan(<<"failed to convert id to condition">> \o c.err, <<>>)
        ELSE deleteBy(o, c.conds)

DeleteBy(o, condition) ==
    LET c == ToConditions(o, condition)
    IN  IF condition.nil THEN Plan(<<"requires condition">>, <<>>)
        ELSE IF c.err # <<>>
        THEN Plan(<<"failed to convert condition to SQL conditions">> \o c.err, <<>>)
        ELSE deleteBy(o, c.conds)

\* ORM.DeleteWhere (DeleteWhere above is the WHERE clause of the DeleteBuilder).
DeleteWhereORM(o, conditions) ==
    IF Len(conditions) = 0 THEN Plan(<<"requires conditions">>, <<>>)
    ELSE deleteBy(o, conditions)


-----------------------------------------------------------------------------
(* The engine, and what each operation returns once the engine has answered *)

EngineFailure == <<"engine failure">>

Answer(err, id, rows) == [err |-> err, id |-> id, rows |-> rows]

\* What the engine may answer to a call: a failure, or the call's outcome.
Engine(fn) ==
    { Answer(EngineFailure, "0", <<>>) }
    \cup (CASE fn = "ExecInsert" -> { Answer(<<>>, "42", <<>>) }
            [] fn = "Exec" -> { Answer(<<>>, "0", <<>>) }
            [] fn = "Query" -> { Answer(<<>>, "0", rs) :
                                   rs \in { <<>>, <<"row1">>, <<"row1", "row2">> } })

Returned(err, value) == [err |-> err, value |-> value]

insertReturn(p, e) ==
    IF p.err # <<>> THEN Returned(p.err, "0")
    ELSE IF e.err # <<>> THEN Returned(<<"failed to execute Insert">> \o e.err, "0")
    ELSE Returned(<<>>, e.id)

updateReturn(p, e) ==
    IF p.err # <<>> THEN Returned(p.err, Nil)
    ELSE IF e.err # <<>> THEN Returned(<<"failed to execute UpdateByID">> \o e.err, Nil)
    ELSE Returned(<<>>, Nil)

\* get that returns a nil record and no error when no row matches.
getReturnNilOnEmpty(p, e) ==
    IF p.err # <<>> THEN Returned(p.err, Nil)
    ELSE IF e.err # <<>> THEN Returned(<<"failed to execute Get">> \o e.err, Nil)
    ELSE IF Len(e.rows) = 0 THEN Returned(<<>>, Nil)
    ELSE Returned(<<>>, e.rows[1])

getReturn(p, e) ==
    IF p.err # <<>> THEN Returned(p.err, Nil)
    ELSE IF e.err # <<>> THEN Returned(<<"failed to execute Get">> \o e.err, Nil)
    ELSE IF Len(e.rows) = 0 THEN Returned(<<"data not found">>, Nil)
    ELSE Returned(<<>>, e.rows[1])

deleteReturn(p, e) ==
    IF p.err # <<>> THEN Returned(p.err, Nil)
    ELSE IF e.err # <<>> THEN Returned(<<"failed to execute DeleteByID">> \o e.err, Nil)
    ELSE Returned(<<>>, Nil)

-----------------------------------------------------------------------------
(* The inputs of the operations *)

MaxOrmOps == 1

Ids == { "0", "42" }

\* Values of the optional type: no field set, every field set, only the
\* first, only the last.
Partials(P) ==
    LET n == Len(P.fields)
    IN  { Obj([i \in 1..n |-> Nil]), Obj([i \in 1..n |-> ValueOf(P.fields[i])]),
          Obj([i \in 1..n |-> IF i = 1 THEN ValueOf(P.fields[i]) ELSE Nil]),
          Obj([i \in 1..n |-> IF i = n THEN ValueOf(P.fields[i]) ELSE Nil]) }

\* Values of the record type: every field set, with the time fields set or zero.
Records(T) ==
    LET n == Len(T.fields)
    IN  { Obj([i \in 1..n |-> ValueOf(T.fields[i])]),
          Obj([i \in 1..n |-> IF T.fields[i].type = "time.Time" THEN ZeroTime
                              ELSE ValueOf(T.fields[i])]) }

NoAnswer == Answer(<<>>, "0", <<>>)

\* An operation on the binding: what it was called with, the engine call it
\* made, if any, what the engine answered and what the operation returned.
Operate(op, id, cond, data, p, e, r) ==
    /\ orm' = [orm EXCEPT !.calls = @ \o p.calls, !.nops = @ + 1,
                          !.res = [op |-> op, id |-> id, cond |-> cond, data |-> data,
                                   calls |-> p.calls,
                                   answer |-> IF p.calls = <<>> THEN NoAnswer ELSE e,
                                   err |-> r.err, value |-> r.value]]
    /\ UNCHANGED <<mode, call, ex, sel, ins, upd, del, log, late, out>>

Usable == mode = "orm" /\ orm.state = "active" /\ orm.nops < MaxOrmOps

OrmInsert ==
    /\ Usable
    /\ \E model \in Records(orm.T) \cup {NilObj} :
          \E p \in { Insert(orm, model) }, e \in Engine("ExecInsert") :
              Operate("Insert", "0", NilObj, model, p, e, insertReturn(p, e))

OrmUpdateByID ==
    /\ Usable
    /\ \E id \in Ids, data \in Partials(orm.P) \cup {NilObj} :
          \E p \in { UpdateByID(orm, id, data) }, e \in Engine("Exec") :
              Operate("UpdateByID", id, NilObj, data, p, e, updateReturn(p, e))

OrmUpdateBy ==
    /\ Usable
    /\ \E cond \in Partials(orm.P) \cup {NilObj}, data \in Partials(orm.P) :
          \E p \in { UpdateBy(orm, cond, data) }, e \in Engine("Exec") :
              Operate("UpdateBy", "0", cond, data, p, e, updateReturn(p, e))

OrmGetByID ==
    /\ Usable
    /\ \E id \in Ids :
          \E p \in { GetByID(orm, id) }, e \in Engine("Query") :
              Operate("GetByID", id, NilObj, NilObj, p, e, getReturn(p, e))

OrmGetBy ==
    /\ Usable
    /\ \E cond \in Partials(orm.P) \cup {NilObj} :
          \E p \in { GetBy(orm, cond) }, e \in Engine("Query") :
              Operate("GetBy", "0", cond, NilObj, p, e, getReturn(p, e))

\* The condition lists given to DeleteWhere.
DeleteWhereArgs ==
    { <<>>, <<NoOp>>, <<IDEq>>, <<NoOp, IDEq>>, <<IDEq, NameLike>>,
      <<And(<<>>), NoOp>>, <<ErrExpr("e1")>> }

\* DeleteWhere on the binding: as Operate, with the condition list it was given.
OperateWhere(op, where, p, e, r) ==
    /\ orm' = [orm EXCEPT !.calls = @ \o p.calls, !.nops = @ + 1,
                          !.res = [op |-> op, id |-> "0", cond |-> NilObj, data |-> NilObj,
                                   where |-> where, calls |-> p.calls,
                                   answer |-> IF p.calls = <<>> THEN NoAnswer ELSE e,
                                   err |-> r.err, value |-> r.value]]
    /\ UNCHANGED <<mode, call, ex, sel, ins, upd, del, log, late, out>>

OrmDeleteByID ==
    /\ Usable
    /\ \E id \in Ids :
          \E p \in { DeleteByID(orm, id) }, e \in Engine("Exec") :
              Operate("DeleteByID", id, NilObj, NilObj, p, e, deleteReturn(p, e))

OrmDeleteBy ==
    /\ Usable
    /\ \E cond \in Partials(orm.P) \cup {NilObj} :
          \E p \in { DeleteBy(orm, cond) }, e \in Engine("Exec") :
              Operate("DeleteBy", "0", cond, NilObj, p, e, deleteReturn(p, e))

OrmDeleteWhere ==
    /\ Usable
    /\ \E where \in DeleteWhereArgs :
          \E p \in { DeleteWhereORM(orm, where) }, e \in Engine("Exec") :
              OperateWhere("DeleteWhere", where, p, e, deleteReturn(p, e))

NextOrm ==
    \/ Bind \/ OrmInsert \/ OrmUpdateByID \/ OrmUpdateBy \/ OrmGetByID \/ OrmGetBy
    \/ OrmDeleteByID \/ OrmDeleteBy \/ OrmDeleteWhere

-----------------------------------------------------------------------------
(* Condition constructors *)

NoCall == [fn |-> "none"]

\* What a constructor gives: it panics with a message, or returns an expression.
Raised(msg) == [raised |-> TRUE, msg |-> msg, expr |-> NoOp]

Built(e) == [raised |-> FALSE, msg |-> "", expr |-> e]

\* In that accepts an empty list of values.
InAcceptsEmpty(f, vs) == Built(InCond(f, vs))

In(f, vs) ==
    IF Len(vs) = 0
    THEN Raised(IF f.ftype = "string" THEN "in requires non-empty values"
                ELSE "in requires at least one value")
    ELSE Built(InCond(f, vs))

InOrEmpty(f, vs) == IF Len(vs) = 0 THEN Built(NoOp) ELSE In(f, vs)

Contains(f, value) ==
    IF value = "" THEN Built(NoOp) ELSE Built(Like(f, "%" \o value \o "%"))

StartsWith(f, value) ==
    IF value = "" THEN Built(NoOp) ELSE Built(Like(f, value \o "%"))

EndsWith(f, value) ==
    IF value = "" THEN Built(NoOp) ELSE Built(Like(f, "%" \o value))

CtorFields == { UserName, UserID }

CtorValues == { "v1", "v2", "v3" }

LikeValues == { "", "v1", "a%b" }

\* One call of a constructor: the call and what it gave.
Construct(fn, f, vals, r) ==
    /\ mode = "ctor"
    /\ call.fn = "none"
    /\ call' = [fn |-> fn, field |-> f, vals |-> vals, raised |-> r.raised, msg |-> r.msg,
                in |-> "none"]
    /\ ex' = r.expr
    /\ UNCHANGED <<mode, orm, sel, ins, upd, del, log, late, out>>

CallIn == \E f \in CtorFields, vs \in Lists(CtorValues, MaxOperands) :
    Construct("In", f, vs, In(f, vs))

CallInOrEmpty == \E f \in CtorFields \ {UserID}, vs \in Lists(CtorValues, MaxOperands) :
    Construct("InOrEmpty", f, vs, InOrEmpty(f, vs))

CallContains == \E v \in LikeValues : Construct("Contains", UserName, <<v>>, Contains(UserName, v))

CallStartsWith == \E v \in LikeValues :
    Construct("StartsWith", UserName, <<v>>, StartsWith(UserName, v))

CallEndsWith == \E v \in LikeValues :
    Construct("EndsWith", UserName, <<v>>, EndsWith(UserName, v))

\* The statements an expression is put into: one more condition of the WHERE.
SelectWhere(conds) ==
    [Select(<<UserID>>) EXCEPT !.tableName = "users", !.conditions = conds]

UpdateWhereConds(conds) ==
    [UpdateSet(Update("users"), UserAge, Lit("v4")) EXCEPT !.conditions = conds]

DeleteWhereConds(conds) == [DeleteFrom("users") EXCEPT !.conditions = conds]

\* The expression a constructor returned is rendered, alone or in a statement.
RenderIn(where, r) ==
    /\ mode = "ctor"
    /\ call.fn # "none" /\ ~call.raised /\ call.in = "none"
    /\ call' = [call EXCEPT !.in = where]
    /\ out' = r
    /\ UNCHANGED <<mode, orm, ex, sel, ins, upd, del, log, late>>

CtorToSQL == RenderIn("expr", ToSQL(ex))

CtorSelectSQL == RenderIn("select", SelectSQL(SelectWhere(<<IDEq, ex>>)))

CtorUpdateSQL == RenderIn("update", UpdateSQL(UpdateWhereConds(<<IDEq, ex>>)))

CtorDeleteSQL == RenderIn("delete", DeleteSQL(DeleteWhereConds(<<IDEq, ex>>)))

\* The expression as the ON condition of a JOIN, and as the value of a Set.
SelectJoinOn(cond) ==
    [SelectWhere(<<IDEq>>) EXCEPT
        !.joins = <<[tableName |-> "posts", condition |-> cond, joinType |-> "JOIN"]>>]

CtorJoinSQL == RenderIn("join", SelectSQL(SelectJoinOn(ex)))

CtorInsertSQL == RenderIn("insert", InsertSQL(InsertSet(InsertInto("users"), UserName, ex)))

NextCtor ==
    \/ CallIn \/ CallInOrEmpty \/ CallContains \/ CallStartsWith \/ CallEndsWith
    \/ CtorToSQL \/ CtorSelectSQL \/ CtorUpdateSQL \/ CtorDeleteSQL
    \/ CtorJoinSQL \/ CtorInsertSQL

-----------------------------------------------------------------------------
(* The naming rule applied to a name *)

MaxNameLen == 4

NameChars == { "I", "D", "d", "1" }

RECURSIVE NamesOf(_)
NamesOf(n) ==
    IF n = 0 THEN { <<>> }
    ELSE NamesOf(n - 1)
         \cup { Append(cs, c) : cs \in { m \in NamesOf(n - 1) : Len(m) = n - 1 }, c \in NameChars }

NoNaming(cs) == [fn |-> "none", name |-> cs]

\* validateFieldNaming on a name: the error, and the spelling toStrictCamelCase gives.
ValidateFieldNaming ==
    /\ mode = "naming"
    /\ call.fn = "none"
    /\ call' = [fn |-> "validateFieldNaming", name |-> call.name,
                err |-> validateFieldNaming(call.name),
                corrected |-> toStrictCamelCase(call.name)]
    /\ UNCHANGED <<mode, orm, ex, sel, ins, upd, del, log, late, out>>

-----------------------------------------------------------------------------
(* An expression rendered on its own *)

ExprToSQL ==
    /\ mode = "expr"
    /\ out' = ToSQL(ex)
    /\ UNCHANGED <<mode, call, orm, ex, sel, ins, upd, del, log, late>>

-----------------------------------------------------------------------------
(* The state machine *)

InitExpr ==
    /\ mode = "expr"
    /\ ex \in ExprSet
    /\ sel = Select(<<>>) /\ ins = InsertInto("") /\ upd = Update("") /\ del = DeleteFrom("")
    /\ log = <<>> /\ late = FALSE /\ out = NoOut /\ call = NoCall /\ orm = NoORM

InitSelect ==
    /\ mode = "select"
    /\ sel \in { Select(fs) : fs \in SelFieldLists }
    /\ ex = NoOp /\ ins = InsertInto("") /\ upd = Update("") /\ del = DeleteFrom("")
    /\ log = <<>> /\ late = FALSE /\ out = NoOut /\ call = NoCall /\ orm = NoORM

InitInsert ==
    /\ mode = "insert"
    /\ ins \in { InsertInto(t) : t \in TableNames }
    /\ ex = NoOp /\ sel = Select(<<>>) /\ upd = Update("") /\ del = DeleteFrom("")
    /\ log = <<>> /\ late = FALSE /\ out = NoOut /\ call = NoCall /\ orm = NoORM

InitUpdate ==
    /\ mode = "update"
    /\ upd \in { Update(t) : t \in TableNames }
    /\ ex = NoOp /\ sel = Select(<<>>) /\ ins = InsertInto("") /\ del = DeleteFrom("")
    /\ log = <<>> /\ late = FALSE /\ out = NoOut /\ call = NoCall /\ orm = NoORM

InitOrm ==
    /\ mode = "orm"
    /\ orm \in { Unvalidated(T, P, tbl) : T \in RecordTypes, P \in UNION { OptionalTypes(U) : U \in RecordTypes }, tbl \in Tables }
    /\ ex = NoOp /\ sel = Select(<<>>) /\ ins = InsertInto("") /\ upd = Update("") /\ del = DeleteFrom("")
    /\ log = <<>> /\ late = FALSE /\ out = NoOut /\ call = NoCall

InitDelete ==
    /\ mode = "delete"
    /\ del \in { DeleteFrom(t) : t \in TableNames }
    /\ ex = NoOp /\ sel = Select(<<>>) /\ ins = InsertInto("") /\ upd = Update("")
    /\ log = <<>> /\ late = FALSE /\ out = NoOut /\ call = NoCall /\ orm = NoORM

InitCtor ==
    /\ mode = "ctor"
    /\ call = NoCall
    /\ ex = NoOp /\ sel = Select(<<>>) /\ ins = InsertInto("") /\ upd = Update("") /\ del = DeleteFrom("")
    /\ log = <<>> /\ late = FALSE /\ out = NoOut /\ orm = NoORM

InitNaming ==
    /\ mode = "naming"
    /\ call \in { NoNaming(cs) : cs \in NamesOf(MaxNameLen) }
    /\ ex = NoOp /\ sel = Select(<<>>) /\ ins = InsertInto("") /\ upd = Update("") /\ del = DeleteFrom("")
    /\ log = <<>> /\ late = FALSE /\ out = NoOut /\ orm = NoORM

Init ==
    \/ InitExpr \/ InitSelect \/ InitInsert \/ InitUpdate \/ InitDelete \/ InitOrm \/ InitCtor
    \/ InitNaming

Next ==
    \/ ExprToSQL \/ NextSelect \/ NextInsert \/ NextUpdate \/ NextDelete \/ NextOrm \/ NextCtor
    \/ ValidateFieldNaming

Spec == Init /\ [][Next]_vars

SpecExpr == InitExpr /\ [][ExprToSQL]_vars

SpecSelect == InitSelect /\ [][NextSelect]_vars

SpecInsert == InitInsert /\ [][NextInsert]_vars

SpecUpdate == InitUpdate /\ [][NextUpdate]_vars

SpecDelete == InitDelete /\ [][NextDelete]_vars

SpecOrm == InitOrm /\ [][NextOrm]_vars

SpecCtor == InitCtor /\ [][NextCtor]_vars

SpecNaming == InitNaming /\ [][ValidateFieldNaming]_vars

-----------------------------------------------------------------------------
(* Helpers of the properties *)

Rendered == out # NoOut /\ out.err = <<>>

Position(sql, tok) ==
    IF \E i \in 1..Len(sql) : sql[i] = tok
    THEN CHOOSE i \in 1..Len(sql) : sql[i] = tok /\ \A j \in 1..(i - 1) : sql[j] # tok
    ELSE 0

HasTokens(sql, pat) ==
    \E k \in 1..(Len(sql) + 1 - Len(pat)) : SubSeq(sql, k, k + Len(pat) - 1) = pat

RECURSIVE NonNoOps(_)
NonNoOps(es) ==
    IF es = <<>> THEN <<>>
    ELSE (IF ToSQL(Head(es)).sql = <<>> /\ ToSQL(Head(es)).err = <<>> THEN <<>> ELSE <<Head(es)>>)
         \o NonNoOps(Tail(es))

NoErrors(es) == \A i \in 1..Len(es) : ToSQL(es[i]).err = <<>>

-----------------------------------------------------------------------------
(* C1: in every successfully rendered expression and statement the number *)
(* of "?" placeholders equals the number of returned args.                *)

C1_PlaceholdersMatchArgs == Rendered => CountPh(out.sql) = Len(out.args)

(* C2: DeleteBuilder.SQL skips conditions that render empty: the text is   *)
(* DELETE FROM <table>, then WHERE and the non-empty fragments joined by   *)
(* " AND " (what and() yields for the list, less its outer parentheses)    *)
(* when there is any, then the LIMIT; the args are those of the non-empty  *)
(* conditions in order.                                                    *)

C2_DeleteSkipsNoOps ==
    (mode = "delete" /\ Rendered) =>
        LET kept == SkipEmpty(Renders(del.conditions))
            body == Join(Sqls(kept), " AND ")
            anded == ToSQL(And(del.conditions))
        IN  /\ out.sql = <<"DELETE FROM ", Q(del.tableName)>>
                         \o (IF kept = <<>> THEN <<>> ELSE <<" WHERE ">> \o body)
                         \o (IF del.hasLimit THEN <<" LIMIT ", ToString(del.limit)>> ELSE <<>>)
            /\ out.args = Args(kept)
            /\ anded.sql = (IF Len(kept) > 1 THEN <<"(">> \o body \o <<")">> ELSE body)
            /\ anded.args = out.args

(* C3: UpdateBuilder.SQL skips WHERE conditions that render empty: the     *)
(* statement equals the one rendered by the same builder without its       *)
(* no-op conditions, and has no WHERE when every condition is a no-op.     *)

C3_UpdateSkipsNoOps ==
    (mode = "update" /\ Rendered) =>
        /\ out = UpdateSQL([upd EXCEPT !.conditions = NonNoOps(@)])
        /\ (NonNoOps(upd.conditions) = <<>> => Position(out.sql, " WHERE ") = 0)

(* C4: and()/or() drop the operands that render empty; with none left the  *)
(* result is the empty fragment with no args, with one left it is that     *)
(* operand's fragment and args unchanged, with two or more it is the       *)
(* fragments in source order joined by " AND " / " OR " inside one pair of *)
(* parentheses, with the operands' args concatenated in the same order.    *)

C4_AndOrRender ==
    (mode = "expr" /\ out # NoOut /\ ex.t \in {"and", "or"} /\ NoErrors(ex.cs)) =>
        LET kept == SkipEmpty(Renders(ex.cs))
            sep == IF ex.t = "and" THEN " AND " ELSE " OR "
        IN  /\ out.err = <<>>
            /\ Len(kept) = 0 => out.sql = <<>> /\ out.args = <<>>
            /\ Len(kept) = 1 => out.sql = kept[1].sql /\ out.args = kept[1].args
            /\ Len(kept) > 1 =>
                /\ out.sql = <<"(">> \o Join(Sqls(kept), sep) \o <<")">>
                /\ out.args = Args(kept)

C4_Witness ==
    /\ mode = "expr" /\ Rendered /\ ex.t = "or" /\ Len(ex.cs) = 3
    /\ ex.cs[1] = NoOp /\ ex.cs[2] = NameLike /\ ex.cs[3] = IDEq
    /\ out.args = <<"v2", "v1">>

(* C5: Optional(false, c1..cn) renders the empty fragment and no args for  *)
(* every n, and a Select whose WHERE or HAVING list holds such entries     *)
(* renders the text and args of the same Select without them.              *)

IsOptionalFalse(e) == \E cs \in SelCondArgs \cup HavingArgs : e = Optional(FALSE, cs)

RECURSIVE DropOptionalFalse(_)
DropOptionalFalse(es) ==
    IF es = <<>> THEN <<>>
    ELSE (IF IsOptionalFalse(Head(es)) THEN <<>> ELSE <<Head(es)>>) \o DropOptionalFalse(Tail(es))

C5_OptionalFalse ==
    /\ \A cs \in SelCondArgs \cup HavingArgs : ToSQL(Optional(FALSE, cs)) = Ok(<<>>, <<>>)
    /\ (mode = "select" /\ out # NoOut) =>
          out = SelectSQL([sel EXCEPT !.conditions = DropOptionalFalse(@),
                                      !.havings = DropOptionalFalse(@)])

C5_Witness ==
    /\ mode = "select" /\ Rendered
    /\ Len(sel.conditions) = 2 /\ IsOptionalFalse(sel.conditions[1]) /\ sel.conditions[2] = IDEq
    /\ Len(sel.havings) = 1 /\ IsOptionalFalse(sel.havings[1])
    /\ Position(out.sql, " WHERE ") > 0 /\ Position(out.sql, " HAVING ") = 0

(* C6: in the Insert builder a Set whose value fails to render does not    *)
(* stop the chain; SQL() returns the error of the first failing Set call,  *)
(* whatever Set calls follow it, and no staged error when no Set failed.   *)

FailedSets == { i \in 1..Len(log) : ToSQL(log[i][2]).err # <<>> }

FirstFailed == CHOOSE i \in FailedSets : \A j \in FailedSets : i <= j

C6_InsertStagedError ==
    (mode = "insert" /\ out # NoOut) =>
        IF FailedSets # {}
        THEN /\ out = Fail(<<"SET field " \o Q(log[FirstFailed][1].name)>>
                           \o ToSQL(log[FirstFailed][2]).err)
             /\ Len(ins.updates) = FirstFailed - 1
        ELSE /\ out.err \in { <<>>, <<"table name is required">>, <<"no columns specified">> }
             /\ Len(ins.updates) = Len(log)

C6_Witness ==
    /\ mode = "insert" /\ out # NoOut /\ Len(log) = 4
    /\ FailedSets = {2, 4} /\ log[2][2] = ErrExpr("e2")
    /\ out.err = <<"SET field 'age'", "e2">>

(* C8: SQL() of every builder is idempotent and free of side effects: a    *)
(* call leaves the builder as it was, and a call that follows another      *)
(* with no builder method in between returns the same text, args, error.   *)

ClauseTokens ==
    << {"SELECT "}, {" FROM "}, {" JOIN ", " LEFT JOIN "}, {" WHERE "}, {" GROUP BY "},
       {" HAVING "}, {" ORDER BY "}, {" LIMIT ", " OFFSET "} >>

ClauseStart(sql, k) ==
    IF \E i \in 1..Len(sql) : sql[i] \in ClauseTokens[k]
    THEN CHOOSE i \in 1..Len(sql) :
            sql[i] \in ClauseTokens[k] /\ \A j \in 1..(i - 1) : sql[j] \notin ClauseTokens[k]
    ELSE 0

ClauseEnd(sql, k) ==
    IF \E i \in 1..Len(sql) : sql[i] \in ClauseTokens[k]
    THEN CHOOSE i \in 1..Len(sql) :
            sql[i] \in ClauseTokens[k] /\ \A j \in (i + 1)..Len(sql) : sql[j] \notin ClauseTokens[k]
    ELSE 0

C9_ClauseOrder ==
    (mode = "select" /\ Rendered) =>
        /\ ClauseStart(out.sql, 1) = 1
        /\ ClauseStart(out.sql, 2) > 1
        /\ \A k \in 3..8 :
              ClauseStart(out.sql, k) > 0 <=>
                 CASE k = 3 -> sel.joins # <<>>
                   [] k = 4 -> NonNoOps(sel.conditions) # <<>>
                   [] k = 5 -> sel.groupBys # <<>>
                   [] k = 6 -> NonNoOps(sel.havings) # <<>>
                   [] k = 7 -> sel.orderBys # <<>>
                   [] k = 8 -> sel.hasLimit \/ sel.hasOffset
        /\ \A k \in 1..8, m \in 1..8 :
              (k < m /\ ClauseStart(out.sql, k) > 0 /\ ClauseStart(out.sql, m) > 0)
                 => ClauseEnd(out.sql, k) < ClauseStart(out.sql, m)
        /\ out.args =
              Args(NotExcluded(Renders(sel.fields), Sqls(Renders(sel.excludeFields))))
              \o Args([i \in 1..Len(sel.joins) |-> ToSQL(sel.joins[i].condition)])
              \o Args(Renders(sel.conditions))
              \o Args(Renders(sel.groupBys))
              \o Args(Renders(sel.havings))
              \o Args(Renders(sel.orderBys))

C9_Witness ==
    /\ mode = "select" /\ Rendered /\ late
    /\ sel.joins # <<>> /\ sel.conditions = <<IDEq>> /\ sel.orderBys # <<>>
    /\ out.args = <<"v0", "v3", "v1", "v5">>

(* C10: a rendered UPDATE returns the SET values in Set-call order, then   *)
(* the WHERE args in condition order, as the placeholders run left to      *)
(* right; an Increment/Decrement/Concat set value renders as the qualified *)
(* field, the operator and one "?", with its delta as its one arg.         *)

SetValues == [i \in 1..Len(log) |-> log[i][2].v]

FieldOpText(e) == <<Q(e.f.table) \o "." \o Q(e.f.name), e.op, Ph>>

C10_UpdateArgsOrder ==
    (mode = "update" /\ Rendered) =>
        LET where == Position(out.sql, " WHERE ")
            setText == IF where = 0 THEN out.sql ELSE SubSeq(out.sql, 1, where - 1)
        IN  /\ out.args = SetValues \o Args(Renders(upd.conditions))
            /\ CountPh(setText) = Len(log)
            /\ CountPh(out.sql) = Len(out.args)
            /\ \A i \in 1..Len(log) :
                  log[i][2].t = "fieldop" =>
                     /\ ToSQL(log[i][2]) = Ok(FieldOpText(log[i][2]), <<log[i][2].v>>)
                     /\ HasTokens(setText, <<Q(log[i][1].name), "=">> \o FieldOpText(log[i][2]))

C10_Witness ==
    /\ mode = "update" /\ Rendered /\ Len(log) = 2
    /\ log[1][2] = Lit("v1") /\ log[2][2] = FieldOp(UserAge, "+", "v2")
    /\ upd.conditions = <<Cmp(UserID, "=", "v6")>>
    /\ out.args = <<"v1", "v2", "v6">>
    /\ out.sql = <<"UPDATE ", "'users'", " SET ", "'name'", "=", "?", ", ",
                   "'age'", "=", "'users'.'age'", "+", "?", " WHERE ", "'users'.'id'", " = ", "?">>

(* C11: a binding is accepted only if the optional type P mirrors the      *)
(* record type T field for field: P has exactly T's exported fields, none  *)
(* missing and none extra, and every field of P is a pointer whose element *)
(* type is the type of T's field of the same name.                         *)

ExportedNames(S) == { S.fields[i].name : i \in { j \in 1..Len(S.fields) : S.fields[j].exported } }

IsMirror(T, P) ==
    /\ T.kind = "struct" /\ P.kind = "struct"
    /\ ExportedNames(P) = ExportedNames(T)
    /\ \A i \in 1..Len(P.fields) : P.fields[i].exported =>
          /\ P.fields[i].ptr
          /\ \E j \in 1..Len(T.fields) :
                /\ T.fields[j].exported /\ T.fields[j].name = P.fields[i].name
                /\ ~T.fields[j].ptr /\ T.fields[j].type = P.fields[i].type

C11_OptionalMirrors ==
    (mode = "orm" /\ orm.state = "active") => IsMirror(orm.T, orm.P)

(* C12: a binding is rejected whenever the snake_cased names of the        *)
(* record's exported fields (Count left out) and the names of the table's  *)
(* fields differ as sets, in either direction; the field-set error lists   *)
(* the record fields missing from the table and the table fields missing   *)
(* from the record.                                                        *)

Mentions(err, msg) == \E i \in 1..Len(err) : err[i] = msg

\* The checks validateModelType makes before it compares the field sets.
PassesEarlierSteps(T, tbl) ==
    /\ T.kind = "struct"
    /\ ~HasTableField(tbl, "count")
    /\ \A i \in 1..Len(tbl.fields) : TableFieldErr(tbl.fields[i]) = <<>>
    /\ \A i \in 1..Len(T.fields) : ModelFieldErr(T.fields[i]) = <<>>
    /\ (HasCountField(T) => CountFieldOf(T).type = "int64")

Untouched == orm.calls = <<>> /\ orm.nops = 0 /\ orm.res = NoResult

ConstructionOutcome ==
    mode = "orm" =>
        /\ orm.state \in {"unvalidated", "active", "rejected"}
        /\ orm.state = "active" =>
              /\ \A r \in validateModelType(orm.T, orm.table) : r.err = <<>>
              /\ validateOptionalType(orm.T, orm.P).err = <<>>
              /\ orm.verr = VOk
        /\ orm.state = "rejected" =>
              /\ orm.verr.err # <<>>
              /\ orm.verr.err[1] = "ORM validation failed"
              /\ Untouched
        /\ orm.state = "unvalidated" => Untouched

C13_WitnessRejected ==
    /\ mode = "orm" /\ orm.state = "rejected"
    /\ orm.T = User /\ orm.table = UsersTable
    /\ Mentions(orm.verr.err, "optional fields validation failed")

(* C14: UpdateByID with a non-zero id, on a table that has an id field,    *)
(* given a partial record whose every field is nil fails with the "nothing *)
(* to update" error; with any id and any table it fails and issues zero    *)
(* engine calls.                                                           *)

AllNil(obj) == ~obj.nil /\ \A i \in 1..Len(obj.fields) : obj.fields[i] = Nil

UpdatedByIDAllNil == mode = "orm" /\ orm.res.op = "UpdateByID" /\ AllNil(orm.res.data)

\* The statement without the condition on the id.
C14_AllNilAnyId ==
    UpdatedByIDAllNil => orm.res.err = <<ErrNothingToUpdate>> /\ orm.res.calls = <<>>

C14_AllNilNothingToUpdate ==
    UpdatedByIDAllNil =>
        /\ orm.res.err # <<>>
        /\ orm.res.calls = <<>>
        /\ (orm.res.id # "0" /\ HasTableField(orm.table, "id")) =>
              orm.res.err = <<ErrNothingToUpdate>>

C14_Witness ==
    /\ UpdatedByIDAllNil
    /\ orm.P = Mirror(Post) /\ orm.res.id = "42"
    /\ orm.res.err = <<ErrNothingToUpdate>> /\ orm.res.calls = <<>>

(* C15: in UpdateByID and UpdateBy the SET list holds the non-nil fields   *)
(* of the partial record that have a table column, in declaration order;   *)
(* "nothing to update" is decided from those fields alone, before the      *)
(* auto-fill; when it is not raised, an UpdateTime field left nil is       *)
(* auto-filled with the current timestamp and appended to the SET list.    *)

Assign(col, v) == [col |-> col, v |-> v]

\* The non-nil fields of a partial record, as column and value.
RECURSIVE NonNilFields(_, _, _)
NonNilFields(P, data, i) ==
    IF i > Len(P.fields) THEN <<>>
    ELSE (IF data.fields[i] = Nil THEN <<>>
          ELSE <<Assign(CamelToSnake(P.fields[i].name), data.fields[i])>>)
         \o NonNilFields(P, data, i + 1)

InTable(as, tbl) == SelectSeq(as, LAMBDA a : HasTableField(tbl, a.col))

UpdateTimeLeftNil(P, data) ==
    \E i \in 1..Len(P.fields) : P.fields[i].name = NameUpdateTime /\ data.fields[i] = Nil

AutoFill(P, data) ==
    IF UpdateTimeLeftNil(P, data) THEN <<Assign("update_time", Now)>> ELSE <<>>

\* The text and the args a SET list of these assignments renders to.
SetText(as) == Join([i \in 1..Len(as) |-> <<Q(as[i].col), "=", Ph>>], ", ")

SetArgs(as) == [i \in 1..Len(as) |-> as[i].v]

\* The engine call starts with exactly this SET list.
SetsExactly(c, tbl, as) ==
    LET text == <<"UPDATE ", Q(tbl.name), " SET ">> \o SetText(as) \o <<" WHERE ">>
    IN  /\ Len(c.sql) >= Len(text) /\ SubSeq(c.sql, 1, Len(text)) = text
        /\ Len(c.args) >= Len(as) /\ SubSeq(c.args, 1, Len(as)) = SetArgs(as)

\* An update that got as far as deciding whether there is anything to update.
UpdateDecided ==
    /\ mode = "orm" /\ orm.res.op \in {"UpdateByID", "UpdateBy"} /\ ~orm.res.data.nil
    /\ orm.res.err = <<ErrNothingToUpdate>> \/ orm.res.calls # <<>>

\* "Nothing to update" decided after the auto-fill, from every non-nil field.
C15_DecidedAfterAutoFill ==
    UpdateDecided =>
        LET as == NonNilFields(orm.P, orm.res.data, 1) \o AutoFill(orm.P, orm.res.data)
        IN  /\ orm.res.err = <<ErrNothingToUpdate>> <=> as = <<>>
            /\ orm.res.calls # <<>> => SetsExactly(orm.res.calls[1], orm.table, as)

C15_SetListNonNil ==
    UpdateDecided =>
        LET set == InTable(NonNilFields(orm.P, orm.res.data, 1), orm.table)
        IN  /\ orm.res.err = <<ErrNothingToUpdate>> <=> set = <<>>
            /\ set # <<>> => orm.res.calls # <<>>
            /\ orm.res.calls # <<>> =>
                  SetsExactly(orm.res.calls[1], orm.table, set \o AutoFill(orm.P, orm.res.data))

C15_Witness ==
    /\ UpdateDecided /\ orm.res.op = "UpdateByID"
    /\ orm.P = Mirror(Post)
    /\ Len(orm.res.calls) = 1
    /\ orm.res.calls[1].sql = <<"UPDATE ", Q("posts"), " SET ", Q("id"), "=", Ph, ", ",
                            Q("update_time"), "=", Ph, " WHERE ", Q("id"), " = ", Ph>>
    /\ orm.res.calls[1].args = <<"val_id", Now, "42">>

(* C16: Insert turns every exported field of the record other than Count   *)
(* into exactly one SET assignment, rendered as a ? placeholder with the   *)
(* field's value as its arg, in declaration order; a CreateTime or         *)
(* UpdateTime field at its zero value goes in as the current timestamp, a  *)
(* non-zero one goes in unchanged.                                         *)

\* What Insert is to set for the fields of a record from the i-th on.
RECURSIVE InsertedFields(_, _, _)
InsertedFields(T, model, i) ==
    IF i > Len(T.fields) THEN <<>>
    ELSE (IF ~T.fields[i].exported \/ T.fields[i].name = NameCount THEN <<>>
          ELSE <<Assign(CamelToSnake(T.fields[i].name),
                        IF T.fields[i].name \in {NameCreateTime, NameUpdateTime}
                           /\ model.fields[i] = ZeroTime
                        THEN Now ELSE model.fields[i])>>)
         \o InsertedFields(T, model, i + 1)

Inserted == mode = "orm" /\ orm.res.op = "Insert" /\ ~orm.res.data.nil

C16_InsertAssignments ==
    Inserted =>
        LET as == InsertedFields(orm.T, orm.res.data, 1)
        IN  /\ Len(orm.res.calls) = 1
            /\ orm.res.calls[1].fn = "ExecInsert"
            /\ orm.res.calls[1].sql = <<"INSERT INTO ", Q(orm.table.name), " SET ">> \o SetText(as)
            /\ orm.res.calls[1].args = SetArgs(as)

C16_Witness ==
    /\ Inserted /\ orm.T = Post
    /\ orm.res.data.fields = <<"val_id", "val_name", ZeroTime, ZeroTime>>
    /\ orm.res.calls[1].sql = <<"INSERT INTO ", Q("posts"), " SET ", Q("id"), "=", Ph, ", ",
                            Q("name"), "=", Ph, ", ", Q("create_time"), "=", Ph, ", ",
                            Q("update_time"), "=", Ph>>
    /\ orm.res.calls[1].args = <<"val_id", "val_name", Now, Now>>
    /\ orm.res.err = <<>> /\ orm.res.value = "42"

C16_WitnessCount ==
    /\ Inserted /\ orm.T = UserWithCount
    /\ orm.res.calls[1].args = <<"val_id", "val_name", "val_age">>

(* C17: GetByID and GetBy never return a nil record together with a nil    *)
(* error: when the query matches no row they return the "data not found"   *)
(* error, and when it matches rows they return the first one.              *)

Got == mode = "orm" /\ orm.res.op \in {"GetByID", "GetBy"}

Answered == orm.res.calls # <<>> /\ orm.res.answer.err = <<>>

C17_WitnessFirstRow ==
    /\ Got /\ orm.res.op = "GetBy"
    /\ Answered /\ orm.res.answer.rows = <<"row1", "row2">>
    /\ orm.res.err = <<>> /\ orm.res.value = "row1"

(* C18: every literal renders as exactly one ? placeholder with the value  *)
(* as its single arg, and no value supplied by the caller appears as text  *)
(* in the SQL of any statement, with one exception: the integers given to  *)
(* Limit and Offset are written in decimal into the LIMIT/OFFSET clause.   *)

\* The values the callers of the model supply: condition and literal values,
\* the field values, ids and timestamps of the ORM operations.
SuppliedValues ==
    { "v" \o ToString(i) : i \in 0..7 } \cup Ids \cup { Now, ZeroTime }
    \cup UNION { { ValueOf(T.fields[i]) : i \in 1..Len(T.fields) } : T \in RecordTypes }

\* The integers the callers give to Limit and Offset, as written in decimal.
LimitTexts == { ToString(n) : n \in LimitVals \cup OffsetVals }

\* The SQL texts the state holds: the last render and the engine calls made.
Statements ==
    (IF Rendered THEN { out.sql } ELSE {})
    \cup (IF mode = "orm" THEN { orm.calls[i].sql : i \in 1..Len(orm.calls) } ELSE {})

LiteralIsPlaceholder ==
    (mode = "expr" /\ ex.t = "lit" /\ out # NoOut) => out = Ok(<<Ph>>, <<ex.v>>)

InLimitClause(sql, i) ==
    \E k \in 1..(i - 1) :
        /\ sql[k] \in {" LIMIT ", " OFFSET "}
        /\ \A j \in (k + 1)..i : sql[j] \in LimitTexts \cup {","}

\* No value at all in the text, the Limit and Offset integers included.
C18_NoValueInText ==
    /\ LiteralIsPlaceholder
    /\ \A sql \in Statements : \A i \in 1..Len(sql) :
          sql[i] \notin SuppliedValues \cup LimitTexts

C18_ValuesArePlaceholders ==
    /\ LiteralIsPlaceholder
    /\ \A sql \in Statements : \A i \in 1..Len(sql) :
          /\ sql[i] \notin SuppliedValues
          /\ sql[i] \in LimitTexts => InLimitClause(sql, i)

C18_Witness ==
    /\ mode = "select" /\ Rendered
    /\ Position(out.sql, " LIMIT ") > 0
    /\ Len(out.args) >= 2 /\ CountPh(out.sql) = Len(out.args)
    /\ \A i \in 1..Len(out.args) : out.args[i] \in SuppliedValues

C18_WitnessLiteral ==
    mode = "expr" /\ ex = Lit("v1") /\ out = Ok(<<Ph>>, <<"v1">>)

(* C19: In with n >= 1 values renders "<field> IN (?, ..., ?)" with        *)
(* exactly n placeholders and the n values as args in order; with zero     *)
(* values the strict In raises, and InOrEmpty gives a no-op that renders   *)
(* an empty fragment and no args without an error.                         *)

Called(fns) == mode = "ctor" /\ call.fn \in fns

RenderedAlone == call.in = "expr"

C19_InPlaceholders ==
    Called({"In", "InOrEmpty"}) =>
        LET n == Len(call.vals)
        IN  /\ (n >= 1) =>
                  /\ ~call.raised
                  /\ RenderedAlone =>
                        /\ out.err = <<>>
                        /\ out.sql = <<Q(call.field.table) \o "." \o Q(call.field.name), " IN (">>
                                     \o Join([i \in 1..n |-> <<Ph>>], ", ") \o <<")">>
                        /\ CountPh(out.sql) = n
                        /\ out.args = call.vals
            /\ (n = 0 /\ call.fn = "In") => call.raised /\ call.in = "none" /\ out = NoOut
            /\ (n = 0 /\ call.fn = "InOrEmpty") =>
                  /\ ~call.raised
                  /\ RenderedAlone => out = Ok(<<>>, <<>>)

C19_Witness ==
    /\ Called({"In"}) /\ RenderedAlone
    /\ call.vals = <<"v2", "v1", "v2">>
    /\ out.sql = <<Q("users") \o "." \o Q("name"), " IN (", Ph, ", ", Ph, ", ", Ph, ")">>
    /\ out.args = <<"v2", "v1", "v2">>

C19_WitnessRaised == Called({"In"}) /\ call.vals = <<>> /\ call.raised

C19_WitnessOrEmpty ==
    Called({"InOrEmpty"}) /\ call.vals = <<>> /\ RenderedAlone /\ out = Ok(<<>>, <<>>)

(* C20: Contains(""), StartsWith("") and EndsWith("") render as no-ops, an *)
(* empty fragment and no args, so that a statement built with one of them  *)
(* renders the same as the statement built without it; for a non-empty     *)
(* value each renders "<field> LIKE ?" with the value wrapped in its %     *)
(* wildcards as the single arg.                                            *)

Wildcarded(fn, v) ==
    CASE fn = "Contains" -> "%" \o v \o "%"
      [] fn = "StartsWith" -> v \o "%"
      [] fn = "EndsWith" -> "%" \o v

\* The statement the expression was put into, built without the expression.
Without ==
    CASE call.in = "select" -> SelectSQL(SelectWhere(<<IDEq>>))
      [] call.in = "update" -> UpdateSQL(UpdateWhereConds(<<IDEq>>))
      [] call.in = "delete" -> DeleteSQL(DeleteWhereConds(<<IDEq>>))

C20_EmptyLikeIsNoOp ==
    Called({"Contains", "StartsWith", "EndsWith"}) =>
        LET v == call.vals[1]
        IN  /\ ~call.raised
            /\ (v = "" /\ RenderedAlone) => out = Ok(<<>>, <<>>)
            /\ (v = "" /\ call.in \in {"select", "update", "delete"}) => out = Without
            /\ (v # "" /\ RenderedAlone) =>
                  out = Ok(<<Q(call.field.table) \o "." \o Q(call.field.name), " LIKE ", Ph>>,
                           <<Wildcarded(call.fn, v)>>)

-----------------------------------------------------------------------------
(* C21: a Select with both Limit and Offset set renders                    *)
(* "LIMIT <offset>,<limit>", offset first; with only Limit set it renders  *)
(* "LIMIT <n>"; with only Offset set "OFFSET <n>"; with neither set the    *)
(* text holds no LIMIT and no OFFSET clause.                               *)

\* The text from the first LIMIT or OFFSET keyword to the end of the statement.
LimitPart(sql) ==
    IF \E i \in 1..Len(sql) : sql[i] \in {" LIMIT ", " OFFSET "}
    THEN LET k == CHOOSE i \in 1..Len(sql) :
                     /\ sql[i] \in {" LIMIT ", " OFFSET "}
                     /\ \A j \in 1..(i - 1) : sql[j] \notin {" LIMIT ", " OFFSET "}
         IN  SubSeq(sql, k, Len(sql))
    ELSE <<>>

C21_LimitOffsetForms ==
    (mode = "select" /\ Rendered) =>
        LimitPart(out.sql) =
            IF sel.hasLimit /\ sel.hasOffset
            THEN <<" LIMIT ", ToString(sel.offset), ",", ToString(sel.limit)>>
            ELSE IF sel.hasLimit THEN <<" LIMIT ", ToString(sel.limit)>>
            ELSE IF sel.hasOffset THEN <<" OFFSET ", ToString(sel.offset)>>
            ELSE <<>>

C21_Witness ==
    /\ mode = "select" /\ Rendered
    /\ sel.hasLimit /\ sel.hasOffset /\ sel.limit # sel.offset
    /\ HasTokens(out.sql, <<" LIMIT ", ToString(sel.offset), ",", ToString(sel.limit)>>)

C21_WitnessLimitOnly ==
    /\ mode = "select" /\ Rendered /\ sel.hasLimit /\ ~sel.hasOffset
    /\ LimitPart(out.sql) = <<" LIMIT ", ToString(sel.limit)>>

C21_WitnessOffsetOnly ==
    /\ mode = "select" /\ Rendered /\ ~sel.hasLimit /\ sel.hasOffset
    /\ LimitPart(out.sql) = <<" OFFSET ", ToString(sel.offset)>>

C21_WitnessNeither ==
    /\ mode = "select" /\ Rendered /\ ~sel.hasLimit /\ ~sel.hasOffset
    /\ sel.conditions # <<>> /\ LimitPart(out.sql) = <<>>

-----------------------------------------------------------------------------
(* C22: rendering returns an error and no SQL text whenever a Select has   *)
(* no FROM table or excludes fields with zero selected fields, and         *)
(* whenever an Insert or Update has an empty table name or an empty        *)
(* set-list; the accumulating calls never report these errors, which       *)
(* surface only when SQL() is called.                                      *)

\* SQL() has been called on the builder of the mode and nothing changed since.
Asked(m) == mode = m /\ out # NoOut

Refused == out.err # <<>> /\ out.sql = <<>> /\ out.args = <<>>

BuildErrors ==
    { "from table is required", "exclude fields without selected fields",
      "table name is required", "no columns specified",
      "at least one SET expression is required" }

SelectUnbuildable ==
    sel.tableName = "" \/ (Len(sel.fields) = 0 /\ Len(sel.excludeFields) > 0)

InsertUnbuildable == ins.tableName = "" \/ Len(ins.updates) = 0

UpdateUnbuildable == upd.tableName = "" \/ Len(upd.updates) = 0

\* An accumulating call leaves no result behind, and the only error a builder
\* stages (InsertIntoBuilder.err) is never one of the build errors.
NoBuildErrorStaged == \A i \in 1..Len(ins.err) : ins.err[i] \notin BuildErrors

AccumulatedSilently == (sel' # sel \/ ins' # ins \/ upd' # upd) => out' = NoOut

C22_BuildErrorsAtRender ==
    /\ [](Asked("select") /\ SelectUnbuildable => Refused)
    /\ [](Asked("insert") /\ InsertUnbuildable => Refused)
    /\ [](Asked("update") /\ UpdateUnbuildable => Refused)
    /\ []NoBuildErrorStaged
    /\ [][AccumulatedSilently]_vars

C22_Witness ==
    /\ Asked("select") /\ sel.tableName # ""
    /\ Len(sel.fields) = 0 /\ Len(sel.excludeFields) > 0
    /\ out = Fail(<<"exclude fields without selected fields">>)

C22_WitnessNoFrom ==
    /\ Asked("select") /\ sel.tableName = "" /\ Len(sel.conditions) > 0
    /\ out = Fail(<<"from table is required">>)

C22_WitnessInsert ==
    /\ Asked("insert") /\ ins.tableName # "" /\ Len(ins.updates) = 0 /\ ins.err = <<>>
    /\ out = Fail(<<"no columns specified">>)

C22_WitnessInsertTable ==
    /\ Asked("insert") /\ ins.tableName = "" /\ Len(ins.updates) > 0 /\ ins.err = <<>>
    /\ out = Fail(<<"table name is required">>)

C22_WitnessUpdate ==
    /\ Asked("update") /\ upd.tableName # "" /\ Len(upd.updates) = 0
    /\ Len(upd.conditions) > 0
    /\ out = Fail(<<"at least one SET expression is required">>)

C22_WitnessUpdateTable ==
    /\ Asked("update") /\ upd.tableName = "" /\ Len(upd.updates) > 0
    /\ out = Fail(<<"table name is required">>)

-----------------------------------------------------------------------------
(* C23: every combinator that iterates several sub-expressions (and, or,   *)
(* not, the math operators add/sub/mul/div, function-call argument lists)  *)
(* drops the sub-expressions that render empty: its text and args equal    *)
(* those of the same combinator built without the no-op operands.          *)

\* The same combinator built from the operands that do not render empty.
DroppedNoOps(e) ==
    CASE e.t = "and" -> And(NonNoOps(e.cs))
      [] e.t = "or" -> Or(NonNoOps(e.cs))
      [] e.t = "not" -> Not(NonNoOps(e.cs))
      [] e.t = "math" -> mathOpExprs(e.op, NonNoOps(e.es))
      [] e.t = "func" -> Func(e.name, NonNoOps(e.as))

C23_CombinatorsDropNoOps ==
    (mode = "expr" /\ Rendered /\ ex.t \in {"and", "or", "not", "math", "func"}) =>
        /\ out.sql = ToSQL(DroppedNoOps(ex)).sql
        /\ out.args = ToSQL(DroppedNoOps(ex)).args

-----------------------------------------------------------------------------
(* C24: every UPDATE or DELETE statement that UpdateByID, UpdateBy,        *)
(* DeleteByID, DeleteBy or DeleteWhere passes to the engine has a WHERE    *)
(* clause with at least one non-empty condition; when the conditions       *)
(* supplied are absent, all nil or all render as no-ops, the operation     *)
(* fails without an engine call.                                           *)

Conditional == {"UpdateByID", "UpdateBy", "DeleteByID", "DeleteBy", "DeleteWhere"}

\* The text has a WHERE keyword and, after it, something other than " AND ".
HasCondition(sql) ==
    /\ Position(sql, " WHERE ") > 0
    /\ \E j \in (Position(sql, " WHERE ") + 1)..Len(sql) : sql[j] # " AND "

\* The operation was given no condition that renders to text.
NoEffectiveCondition ==
    CASE orm.res.op \in {"UpdateBy", "DeleteBy"} -> orm.res.cond.nil \/ AllNil(orm.res.cond)
      [] orm.res.op = "DeleteWhere" ->
            NoErrors(orm.res.where) /\ NonNoOps(orm.res.where) = <<>>
      [] OTHER -> FALSE

C24_AlwaysWhere ==
    (mode = "orm" /\ orm.res.op \in Conditional) =>
        /\ \A i \in 1..Len(orm.res.calls) : HasCondition(orm.res.calls[i].sql)
        /\ NoEffectiveCondition => orm.res.err # <<>> /\ orm.res.calls = <<>>

-----------------------------------------------------------------------------
(* C25: binding validation applies its checks in this order and aborts at  *)
(* the first that fails: (1) the record type is a struct, (2) no table     *)
(* field is named count, (5, table side) create_time/update_time are       *)
(* Time-typed in the table, then for each record field in declaration      *)
(* order (3) its strict-CamelCase name and (5, record side) its time type  *)
(* when it is CreateTime/UpdateTime, (4) field names and types reconcile   *)
(* with the table, (6) the optional type; when several rules are violated  *)
(* the reported error is that of the first violated check in this order.   *)

BadName(f) == f.exported /\ hasConsecutiveUppercase(f.name)

BadRecordTime(f) ==
    f.exported /\ f.name \in {NameCreateTime, NameUpdateTime} /\ (f.ptr \/ f.type # "time.Time")

BadTableTime(f) == f.name \in {"create_time", "update_time"} /\ f.ftype # "time"

Unreconciled(T, tbl) ==
    \/ ModelFieldNames(T) # TableFieldNames(tbl)
    \/ \E n \in ModelFieldNames(T) \cap TableFieldNames(tbl) :
          checkFieldTypeCompatibility(ModelFieldOf(T, n), TableFieldOf(tbl, n)) # <<>>

\* The numbers of the steps 1..5 that the record type and the table violate.
StepsViolated(T, tbl) ==
    (IF T.kind # "struct" THEN {1} ELSE {})
    \cup (IF HasTableField(tbl, "count") THEN {2} ELSE {})
    \cup (IF \E i \in 1..Len(T.fields) : BadName(T.fields[i]) THEN {3} ELSE {})
    \cup (IF Unreconciled(T, tbl) THEN {4} ELSE {})
    \cup (IF \/ \E i \in 1..Len(T.fields) : BadRecordTime(T.fields[i])
             \/ \E i \in 1..Len(tbl.fields) : BadTableTime(tbl.fields[i])
          THEN {5} ELSE {})

\* The violated checks, in the order the validation makes them, each with the
\* field it is about.
RECURSIVE RecordChecks(_, _)
RecordChecks(T, i) ==
    IF i > Len(T.fields) THEN <<>>
    ELSE (IF BadName(T.fields[i]) THEN <<<<"3", Str(T.fields[i].name)>>>>
          ELSE IF BadRecordTime(T.fields[i]) THEN <<<<"5", Str(T.fields[i].name)>>>>
          ELSE <<>>)
         \o RecordChecks(T, i + 1)

RECURSIVE TableChecks(_, _)
TableChecks(tbl, i) ==
    IF i > Len(tbl.fields) THEN <<>>
    ELSE (IF BadTableTime(tbl.fields[i]) THEN <<<<"5", tbl.fields[i].name>>>> ELSE <<>>)
         \o TableChecks(tbl, i + 1)

ChecksViolated(T, tbl) ==
    (IF T.kind # "struct" THEN <<<<"1", "">>>> ELSE <<>>)
    \o (IF HasTableField(tbl, "count") THEN <<<<"2", "count">>>> ELSE <<>>)
    \o TableChecks(tbl, 1)
    \o RecordChecks(T, 1)
    \o (IF Unreconciled(T, tbl) THEN <<<<"4", "">>>> ELSE <<>>)

\* The step whose error a rejected construction reports, and the field named.
ReportedCheck(err) ==
    IF Mentions(err, "optional fields validation failed") THEN <<"6", "">>
    ELSE IF Mentions(err, ErrNotStruct) THEN <<"1", "">>
    ELSE IF Mentions(err, "table must not contain a 'count' field, it is reserved for query operations")
    THEN <<"2", "count">>
    ELSE IF Mentions(err, ErrInvalidFieldNaming)
    THEN <<"3", CHOOSE n \in { Str(NameID) } :
                   Mentions(err, "field '" \o n \o "' has consecutive uppercase letters, use '"
                                 \o Str(toStrictCamelCase(NameID)) \o "' instead")>>
    ELSE IF Mentions(err, ErrFieldCountMismatch) \/ Mentions(err, ErrFieldTypeMismatch)
    THEN <<"4", "">>
    ELSE IF \E n \in {"create_time", "update_time"} :
               Mentions(err, "table field '" \o n \o "' must be of type TimeField")
    THEN <<"5", CHOOSE n \in {"create_time", "update_time"} :
                   Mentions(err, "table field '" \o n \o "' must be of type TimeField")>>
    ELSE IF \E n \in { Str(NameCreateTime), Str(NameUpdateTime) } :
               Mentions(err, "model field '" \o n \o "' must be of type time.Time")
    THEN <<"5", CHOOSE n \in { Str(NameCreateTime), Str(NameUpdateTime) } :
                   Mentions(err, "model field '" \o n \o "' must be of type time.Time")>>
    ELSE <<"?", "">>

Decided == mode = "orm" /\ orm.state # "unvalidated"

StepNumber(s) == CHOOSE n \in 1..6 : ToString(n) = s

C25_WitnessTableFirst ==
    /\ Decided /\ orm.state = "rejected"
    /\ {3, 5} \subseteq StepsViolated(orm.T, orm.table)
    /\ ReportedCheck(orm.verr.err) = <<"5", "update_time">>

C25_WitnessNameFirst ==
    /\ Decided /\ orm.state = "rejected"
    /\ {3, 4} \subseteq StepsViolated(orm.T, orm.table)
    /\ ReportedCheck(orm.verr.err) = <<"3", Str(NameID)>>

-----------------------------------------------------------------------------
(* C26: no rendered statement has an empty expression slot: a JOIN whose   *)
(* condition renders empty never leaves "JOIN t ON " followed by nothing,  *)
(* and a SET assignment of an Insert or Update whose value renders empty   *)
(* never leaves "field=" followed by nothing; the entry is omitted or the  *)
(* render fails.                                                           *)

\* The tokens that may follow a JOIN: the next JOIN or a later clause.
AfterJoin ==
    { " JOIN ", " LEFT JOIN ", " WHERE ", " GROUP BY ", " HAVING ", " ORDER BY ",
      " LIMIT ", " OFFSET " }

\* An ON or an = with no expression behind it.
EmptySlot(sql) ==
    \E i \in 1..Len(sql) :
        \/ sql[i] = " ON " /\ (i = Len(sql) \/ sql[i + 1] \in AfterJoin)
        \/ sql[i] = "=" /\ (i = Len(sql) \/ sql[i + 1] \in {", ", " WHERE "})

C26_NoEmptySlot == Rendered => ~EmptySlot(out.sql)

-----------------------------------------------------------------------------
(* C27: for every field name that the strict-CamelCase rule rejects, the   *)
(* corrected spelling reported in the error satisfies the rule (no two     *)
(* consecutive uppercase letters) and differs from the rejected name; the  *)
(* correction of a name that satisfies the rule is the name itself.        *)

Named == mode = "naming" /\ call.fn = "validateFieldNaming"

Suggests(err, cs) ==
    Mentions(err, "field '" \o Str(call.name) \o "' has consecutive uppercase letters, use '"
                  \o Str(cs) \o "' instead")

C27_CorrectionIsStrict ==
    Named =>
        /\ hasConsecutiveUppercase(call.name) <=> call.err # <<>>
        /\ call.err # <<>> =>
              /\ Suggests(call.err, call.corrected)
              /\ ~hasConsecutiveUppercase(call.corrected)
              /\ call.corrected # call.name
        /\ ~hasConsecutiveUppercase(call.name) => call.corrected = call.name

-----------------------------------------------------------------------------
(* C28: GetBy with a by-example object whose fields are all nil never      *)
(* issues a SELECT without a WHERE clause: it yields no equality condition *)
(* and is rejected before any engine call, as UpdateBy and DeleteBy are.   *)

GotByAllNil == mode = "orm" /\ orm.res.op = "GetBy" /\ AllNil(orm.res.cond)

C28_GetByAllNilRejected ==
    /\ GotByAllNil => orm.res.err # <<>> /\ orm.res.calls = <<>>
    /\ (mode = "orm" /\ orm.res.op = "GetBy") =>
          \A i \in 1..Len(orm.res.calls) : Position(orm.res.calls[i].sql, " WHERE ") > 0

-----------------------------------------------------------------------------
(* C29: every typed field (Int64, Int32, Float64, String, Time, Bool)      *)
(* renders as the qualified reference 'table'.'field' when its table name  *)
(* is non-empty; with an empty table name an Int64, Int32, Float64, Time   *)
(* or Bool field renders as the unqualified 'field', and a String field    *)
(* keeps an empty table prefix, ''.'field'; there are no args in any case. *)

FieldRendered == mode = "expr" /\ ex.t = "field" /\ out # NoOut

Qualified(f) == Ok(<<Q(f.table) \o "." \o Q(f.name)>>, <<>>)

Unqualified(f) == Ok(<<Q(f.name)>>, <<>>)

\* Unqualified for every type when the table name is empty.
C29_UnqualifiedWhenEmpty ==
    FieldRendered => out = (IF ex.table = "" THEN Unqualified(ex) ELSE Qualified(ex))

C29_FieldReference ==
    FieldRendered =>
        out = (IF ex.table = "" /\ ex.ftype # "string" THEN Unqualified(ex) ELSE Qualified(ex))

C29_Witness ==
    /\ FieldRendered /\ ex.ftype = "time" /\ ex.table = ""
    /\ out = Ok(<<"'col'">>, <<>>)

C29_WitnessString ==
    /\ FieldRendered /\ ex.ftype = "string" /\ ex.table = ""
    /\ out = Ok(<<"''.'col'">>, <<>>)

C29_WitnessQualified ==
    /\ FieldRendered /\ ex.ftype = "bool" /\ ex.table = "users"
    /\ out = Ok(<<"'users'.'col'">>, <<>>)

-----------------------------------------------------------------------------
(* C30: UpdateByID, GetByID and DeleteByID called with a non-zero id on a  *)
(* binding whose table has no field named id fail with the missing-id      *)
(* error and make no engine call (a zero id is refused first, with         *)
(* "requires id, got 0"); on a table that has an id field every statement  *)
(* they issue has exactly one condition, 'id' = ?, with the given id as    *)
(* its arg.                                                                *)

ByID == mode = "orm" /\ orm.res.op \in {"UpdateByID", "GetByID", "DeleteByID"}

\* The WHERE clause of the statement is 'id' = ? and nothing more, and the
\* arg of its placeholder, the last of the statement, is the id.
WhereIdOnly(c, id) ==
    LET k == Position(c.sql, " WHERE ")
    IN  /\ k > 0 /\ k + 3 <= Len(c.sql)
        /\ SubSeq(c.sql, k, k + 3) = <<" WHERE ", Q("id"), " = ", Ph>>
        /\ k + 3 = Len(c.sql) \/ c.sql[k + 4] = " LIMIT "
        /\ c.args # <<>> /\ c.args[Len(c.args)] = id
        /\ orm.res.op # "UpdateByID" => c.args = <<id>>

C30_WitnessZeroId ==
    /\ ByID /\ orm.res.op = "GetByID" /\ orm.res.id = "0"
    /\ orm.table = NoIdTable
    /\ orm.res.err = <<"failed to convert id to condition", "requires id, got 0">>

C30_WitnessStatement ==
    /\ ByID /\ orm.res.op = "DeleteByID" /\ orm.table = UsersTable
    /\ orm.res.calls = << [fn |-> "Exec",
                           sql |-> <<"DELETE FROM ", Q("users"), " WHERE ", Q("id"), " = ", Ph>>,
                           args |-> <<"42">>] >>

C30_WitnessUpdate ==
    /\ ByID /\ orm.res.op = "UpdateByID" /\ orm.table = UsersTable
    /\ Len(orm.res.calls) = 1 /\ Len(orm.res.calls[1].args) = 4
    /\ orm.res.calls[1].args[4] = "42"

====
